---- MODULE Spec2Model ----
(***************************************************************************)
(* TailorTalk: natural-language date/time extraction and the booking       *)
(* dialogue agents.                                                        *)
(*                                                                         *)
(* A text is a sequence of tokens (the words of the lower-cased message,   *)
(* joined by single blanks).  A calendar date (datetime.date) is a tuple   *)
(* <<year, month, day>>, a clock time "HH:MM" is a tuple <<hour, minute>>. *)
(* The ISO string of a date that a text carries is the token kind "iso";   *)
(* the regular expressions of the parsers are applied to the tokens.       *)
(***************************************************************************)
EXTENDS Integers, Sequences, FiniteSets, TLC

VARIABLES
    now,        \* AdvancedDateTimeParser.now / DateTimeParser.now: date fixed at construction
    today,      \* the wall-clock date, datetime.now(tz).date()
    ptext,      \* parser harness: the text handed to parse_appointment_request
    pfuzzy,     \* parser harness: what dateutil's fuzzy parse yields for ptext
    pres,       \* parser harness: the result dict, or None before the call
    sessions,   \* EnhancedBookingAgent.user_sessions  (enhanced_booking_agent.py)
    events,     \* the calendar: events created through create_event_with_details
    busy,       \* slots taken in the calendar by other parties
    last,       \* record of the process_message call that ran last (history variable)
    gsessions,  \* EnhancedBookingAgent.user_sessions  (enhanced_langgraph_agent.py)
    calls,      \* enhanced_langgraph_agent: the process_message calls in flight
    glast,      \* record of the langgraph process_message call that finished last
    shared,     \* whether the graph hands the session's own list and dict to the nodes
    user_states,\* FallbackBookingAgent.user_states  (langgraph_agent_fallback.py)
    flast,      \* record of the fallback process_message call that ran last
    conversation_history, \* SecureUserBookingAgent.conversation_history (secure_user_agent.py)
    added,      \* every entry handed to _add_to_conversation, per user (history variable)
    user_contexts,   \* SecureUserBookingAgent.user_contexts (secure_user_agent.py)
    active_sessions, \* GoogleAuthManager.active_sessions   (google_auth_manager.py)
    slast,      \* record of the process_user_message call that ran last
    is_running, \* RealTimeAvailabilityManager.is_running  (realtime_availability.py)
    loops,      \* where each start_monitoring coroutine stands
    stopped     \* the loops that were running when stop_monitoring was last called

vars == <<now, today, ptext, pfuzzy, pres, sessions, events, busy, last,
          gsessions, calls, glast, shared, user_states, flast,
                   conversation_history, added,
                   user_contexts, active_sessions, slast, is_running, loops, stopped>>

None == "none"

\* the auth manager, the secure agent and the availability monitor before use
InitManagers ==
    /\ user_contexts = <<>> /\ active_sessions = <<>> /\ slast = <<>>
    /\ is_running = FALSE /\ loops = <<>> /\ stopped = {}

\* a date-valued expression yields a date, None, or raises
NoDate     == <<0, 0, 0>>      \* Python None where a date is expected
ValueError == <<0, 0, 1>>      \* the resolver raised
NoTime     == <<-1, -1>>       \* Python None where a time string is expected
TimeError  == <<-2, -2>>       \* the time resolver raised

(***************************************************************************)
(* datetime.date                                                           *)
(***************************************************************************)
IsLeap(y) == (y % 4 = 0 /\ y % 100 # 0) \/ (y % 400 = 0)

DaysInMonth(y, m) ==
    IF m = 2 THEN (IF IsLeap(y) THEN 29 ELSE 28)
    ELSE IF m \in {4, 6, 9, 11} THEN 30 ELSE 31

\* date(y, m, d): the date, or ValueError where the constructor raises
date(y, m, d) ==
    IF y \in 1..9999 /\ m \in 1..12 /\ d >= 1 /\ d <= DaysInMonth(y, m)
    THEN <<y, m, d>> ELSE ValueError

\* isinstance(x, date)
IsDate(x) == x[1] > 0

DateLT(a, b) ==
    \/ a[1] < b[1]
    \/ a[1] = b[1] /\ a[2] < b[2]
    \/ a[1] = b[1] /\ a[2] = b[2] /\ a[3] < b[3]

RECURSIVE DaysBeforeMonth(_, _)
DaysBeforeMonth(y, m) ==
    IF m <= 1 THEN 0 ELSE DaysBeforeMonth(y, m - 1) + DaysInMonth(y, m - 1)

\* date.toordinal()
toordinal(dt) ==
    LET y1 == dt[1] - 1
    IN  y1 * 365 + (y1 \div 4) - (y1 \div 100) + (y1 \div 400)
        + DaysBeforeMonth(dt[1], dt[2]) + dt[3]

\* date.weekday(): Monday = 0
weekday(dt) == (toordinal(dt) + 6) % 7

NextDay(dt) ==
    IF dt[3] < DaysInMonth(dt[1], dt[2]) THEN <<dt[1], dt[2], dt[3] + 1>>
    ELSE IF dt[2] < 12 THEN <<dt[1], dt[2] + 1, 1>>
    ELSE <<dt[1] + 1, 1, 1>>

PrevDay(dt) ==
    IF dt[3] > 1 THEN <<dt[1], dt[2], dt[3] - 1>>
    ELSE IF dt[2] > 1 THEN <<dt[1], dt[2] - 1, DaysInMonth(dt[1], dt[2] - 1)>>
    ELSE <<dt[1] - 1, 12, 31>>

\* dt + timedelta(days=n), n >= 0
RECURSIVE AddDays(_, _)
AddDays(dt, n) == IF n <= 0 THEN dt ELSE AddDays(NextDay(dt), n - 1)

(***************************************************************************)
(* Texts                                                                   *)
(***************************************************************************)
Tok(k, s, a, b, c) == [k |-> k, s |-> s, a |-> a, b |-> b, c |-> c]
W(s)           == Tok("w", s, 0, 0, 0)        \* a word
Ord(n)         == Tok("ord", "th", n, 0, 0)   \* "5th"
Nb(n)          == Tok("ord", "", n, 0, 0)     \* "5", one or two digits
Num(a, b)      == Tok("num", "", a, b, 0)     \* "5/7"
NumY(a, b, y)  == Tok("num", "y", a, b, y)    \* "5/7/2025"
Iso(y, m, d)   == Tok("iso", "", y, m, d)     \* "2025-07-05", zero padded
HM(h, m)       == Tok("hm", "", h, m, 0)      \* "15:30"
HMP(h, m, p)   == Tok("hmp", p, h, m, 0)      \* "3:30pm"
HP(h, p)       == Tok("hp", p, h, 0, 0)       \* "3pm"
Mil(h, m)      == Tok("mil", "", h, m, 0)     \* "1530"

IsW(t, s) == t.k = "w" /\ t.s = s

Has(text, p) == p >= 1 /\ p <= Len(text)

\* the least position of text at which P holds, 0 when there is none
\* (re.search returns the leftmost match)
FirstPos(text, P(_)) ==
    IF \E p \in 1..Len(text) : P(p)
    THEN CHOOSE p \in 1..Len(text) : P(p) /\ \A q \in 1..(p - 1) : ~P(q)
    ELSE 0

\* the one or two digits that end a token right after a word boundary
\* ("5", "5/7" -> 7, "5/7/25" -> 25, "2025-07-05" -> 5, "15:30" -> 30), else -1
TrailDigits(t) ==
    CASE t.k = "ord" /\ t.s = "" -> t.a
      [] t.k = "num" /\ t.s = ""  -> t.b
      [] t.k = "num" /\ t.s = "y" -> IF t.c < 100 THEN t.c ELSE -1
      [] t.k = "iso" -> t.c
      [] t.k = "hm"  -> t.b
      [] OTHER -> -1

\* the one or two digits that start a token and are followed by a word boundary
LeadDigits(t) ==
    CASE t.k = "ord" /\ t.s = "" -> t.a
      [] t.k \in {"num", "hm", "hmp"} -> t.a
      [] OTHER -> -1

\* ordinal_pattern (\d{1,2})(?:st|nd|rd|th)?  at the end / at the start of a token
TrailOrdinal(t) == IF t.k = "ord" THEN t.a ELSE TrailDigits(t)
LeadOrdinal(t)  == IF t.k = "ord" THEN t.a ELSE LeadDigits(t)

(***************************************************************************)
(* AdvancedDateTimeParser (advanced_date_parser.py)                        *)
(***************************************************************************)
MonthNames ==
    {"january", "february", "march", "april", "may", "june", "july", "august",
     "september", "october", "november", "december", "jan", "feb", "mar", "apr",
     "jun", "jul", "aug", "sep", "sept", "oct", "nov", "dec", "augus"}

\* self.months.get(name)
months(name) ==
    CASE name \in {"january", "jan"} -> 1   [] name \in {"february", "feb"} -> 2
      [] name \in {"march", "mar"} -> 3     [] name \in {"april", "apr"} -> 4
      [] name = "may" -> 5                  [] name \in {"june", "jun"} -> 6
      [] name \in {"july", "jul"} -> 7      [] name \in {"august", "aug", "augus"} -> 8
      [] name \in {"september", "sep", "sept"} -> 9
      [] name \in {"october", "oct"} -> 10  [] name \in {"november", "nov"} -> 11
      [] name \in {"december", "dec"} -> 12 [] OTHER -> 0

WeekdayNames ==
    {"monday", "tuesday", "wednesday", "thursday", "friday", "saturday", "sunday",
     "mon", "tue", "wed", "thu", "fri", "sat", "sun"}

\* self.weekdays.get(name)
weekdays(name) ==
    CASE name \in {"monday", "mon"} -> 0    [] name \in {"tuesday", "tue"} -> 1
      [] name \in {"wednesday", "wed"} -> 2 [] name \in {"thursday", "thu"} -> 3
      [] name \in {"friday", "fri"} -> 4    [] name \in {"saturday", "sat"} -> 5
      [] name \in {"sunday", "sun"} -> 6    [] OTHER -> -1

IsMonth(t)   == t.k = "w" /\ t.s \in MonthNames
IsWeekday(t) == t.k = "w" /\ t.s \in WeekdayNames

NDateRules == 13
FuzzyRule  == NDateRules + 1

\* does date_patterns[i] match the text at token p
date_patterns(i, text, p) ==
    CASE i = 1  -> Has(text, p + 1) /\ TrailOrdinal(text[p]) >= 0 /\ IsMonth(text[p + 1])
      [] i = 2  -> Has(text, p + 1) /\ IsMonth(text[p]) /\ LeadOrdinal(text[p + 1]) >= 0
      [] i = 3  -> text[p].k \in {"num", "iso"}
      [] i = 4  -> text[p].k = "iso"
      [] i = 5  -> IsW(text[p], "today")
      [] i = 6  -> IsW(text[p], "tomorrow")
      [] i = 7  -> IsW(text[p], "yesterday")
      [] i = 8  -> Has(text, p + 1) /\ IsW(text[p], "next") /\ IsW(text[p + 1], "week")
      [] i = 9  -> /\ Has(text, p + 2) /\ IsW(text[p], "in")
                   /\ text[p + 1].k = "ord" /\ text[p + 1].s = ""
                   /\ text[p + 2].k = "w" /\ text[p + 2].s \in {"day", "days"}
      [] i = 10 -> /\ Has(text, p + 2) /\ IsW(text[p], "in")
                   /\ text[p + 1].k = "ord" /\ text[p + 1].s = ""
                   /\ text[p + 2].k = "w" /\ text[p + 2].s \in {"week", "weeks"}
      [] i = 11 -> Has(text, p + 1) /\ IsW(text[p], "next") /\ IsWeekday(text[p + 1])
      [] i = 12 -> Has(text, p + 1) /\ IsW(text[p], "this") /\ IsWeekday(text[p + 1])
      [] i = 13 -> IsWeekday(text[p])
      [] OTHER  -> FALSE

\* re.search(pattern_i, text): position of the leftmost match, 0 for no match
DateSearch(i, text) == FirstPos(text, LAMBDA p : date_patterns(i, text, p))

\* match.groups() of rule i matched at p
DateGroups(i, text, p) ==
    LET t == text[p] IN
    CASE i = 1  -> [a |-> TrailOrdinal(t), b |-> 0, c |-> 0, s |-> text[p + 1].s]
      [] i = 2  -> [a |-> LeadOrdinal(text[p + 1]), b |-> 0, c |-> 0, s |-> t.s]
      [] i = 3  -> IF t.k = "iso"
                   THEN [a |-> t.b, b |-> t.c, c |-> 0, s |-> ""]
                   ELSE [a |-> t.a, b |-> t.b, c |-> t.c, s |-> t.s]
      [] i = 4  -> [a |-> t.a, b |-> t.b, c |-> t.c, s |-> ""]
      [] i \in {9, 10}  -> [a |-> text[p + 1].a, b |-> 0, c |-> 0, s |-> ""]
      [] i \in {11, 12} -> [a |-> 0, b |-> 0, c |-> 0, s |-> text[p + 1].s]
      [] i = 13 -> [a |-> 0, b |-> 0, c |-> 0, s |-> t.s]
      [] OTHER  -> [a |-> 0, b |-> 0, c |-> 0, s |-> ""]

\* a resolver that never rolls forward to the next year
parse_day_month_this_year(day, month, n) ==
    IF months(month) = 0 THEN ValueError ELSE date(n[1], months(month), day)

parse_day_month(day, month, n) ==
    LET month_num == months(month)
        target    == date(n[1], month_num, day)
    IN  IF month_num = 0 THEN ValueError
        ELSE IF IsDate(target)
             THEN (IF DateLT(target, n) THEN date(n[1] + 1, month_num, day) ELSE target)
             ELSE date(n[1] + 1, month_num, day)

parse_month_day(month, day, n) == parse_day_month(day, month, n)

\* a resolver that tries the month/day reading first
parse_numeric_date_month_first(part1, part2, year, hasYear, n) ==
    IF IsDate(date(n[1], part1, part2)) THEN date(n[1], part1, part2)
    ELSE date(n[1], part2, part1)

\* year = 0 with hasYear FALSE stands for year=None
parse_numeric_date(part1, part2, year, hasYear, n) ==
    LET day_num   == part1
        month_num == part2
        year_num  == IF ~hasYear THEN n[1]
                     ELSE IF year < 100 THEN (IF year < 50 THEN 2000 + year ELSE 1900 + year)
                     ELSE year
        roll(t, m, d) == IF ~hasYear /\ DateLT(t, n) THEN date(year_num + 1, m, d) ELSE t
        dm  == date(year_num, month_num, day_num)
        dm2 == IF IsDate(dm) THEN roll(dm, month_num, day_num) ELSE ValueError
        md  == date(year_num, day_num, month_num)
        md2 == IF IsDate(md) THEN roll(md, day_num, month_num) ELSE ValueError
    IN  IF month_num <= 12 /\ IsDate(dm2) THEN dm2
        ELSE IF day_num <= 12 /\ IsDate(md2) THEN md2
        ELSE ValueError

parse_iso_date(year, month, day) == date(year, month, day)

parse_in_days(days, n)   == AddDays(n, days)
parse_in_weeks(weeks, n) == AddDays(n, 7 * weeks)

parse_next_weekday(wd, n) ==
    LET weekday_num == weekdays(wd)
        days_ahead  == weekday_num - weekday(n)
    IN  IF weekday_num < 0 THEN ValueError
        ELSE AddDays(n, IF days_ahead <= 0 THEN days_ahead + 7 ELSE days_ahead)

\* a "this <weekday>" that never answers today
parse_this_weekday_skipping(wd, n) ==
    LET weekday_num == weekdays(wd)
        days_ahead  == weekday_num - weekday(n)
    IN  IF weekday_num < 0 THEN ValueError
        ELSE AddDays(n, IF days_ahead <= 0 THEN days_ahead + 7 ELSE days_ahead)

parse_this_weekday(wd, n) ==
    LET weekday_num == weekdays(wd)
        days_ahead  == weekday_num - weekday(n)
    IN  IF weekday_num < 0 THEN ValueError
        ELSE AddDays(n, IF days_ahead < 0 THEN days_ahead + 7 ELSE days_ahead)

parse_upcoming_weekday(wd, n) == parse_next_weekday(wd, n)

\* handler(*match.groups()) of date rule i
DateHandler(i, g, n) ==
    CASE i = 1  -> parse_day_month(g.a, g.s, n)
      [] i = 2  -> parse_month_day(g.s, g.a, n)
      [] i = 3  -> parse_numeric_date(g.a, g.b, g.c, g.s = "y", n)
      [] i = 4  -> parse_iso_date(g.a, g.b, g.c)
      [] i = 5  -> n
      [] i = 6  -> AddDays(n, 1)
      [] i = 7  -> PrevDay(n)
      [] i = 8  -> AddDays(n, 7)
      [] i = 9  -> parse_in_days(g.a, n)
      [] i = 10 -> parse_in_weeks(g.a, n)
      [] i = 11 -> parse_next_weekday(g.s, n)
      [] i = 12 -> parse_this_weekday(g.s, n)
      [] i = 13 -> parse_upcoming_weekday(g.s, n)
      [] OTHER  -> ValueError

\* what rule i yields on the text: a date, or a non-date when it does not
\* match or its handler raises
DateRuleResult(i, text, n) ==
    LET matched(p) == IF p = 0 THEN NoDate
                      ELSE DateHandler(i, DateGroups(i, text, p), n)
    IN  matched(DateSearch(i, text))

NoDateResult == [date |-> NoDate, confidence |-> 0, rule |-> 0]

\* the for loop of _extract_date_precise from rule i on, then the dateutil
\* fallback; fz is what dateutil_parser.parse(clean_text, fuzzy=True) yields
\* (a date, or ValueError when it raises)
RECURSIVE DateLoop(_, _, _, _)
DateLoop(i, text, fz, n) ==
    IF i > NDateRules
    THEN IF IsDate(fz) /\ fz # n
         THEN [date |-> fz, confidence |-> 60, rule |-> FuzzyRule]
         ELSE NoDateResult
    ELSE LET tried(parsed_date) ==
                 IF IsDate(parsed_date)
                 THEN [date |-> parsed_date, confidence |-> 90, rule |-> i]
                 ELSE DateLoop(i + 1, text, fz, n)
         IN  tried(DateRuleResult(i, text, n))

\* the loop of _extract_date_precise gone wrong: the rules are tried from
\* the last declared to the first, so the latest matching rule wins
extract_date_last_rule_wins(text, fz, n) ==
    LET yielding == {i \in 1..NDateRules : IsDate(DateRuleResult(i, text, n))}
        latest   == CHOOSE i \in yielding : \A j \in yielding : j <= i
    IN  IF yielding = {} THEN DateLoop(NDateRules + 1, text, fz, n)
        ELSE [date |-> DateRuleResult(latest, text, n), confidence |-> 90,
              rule |-> latest]

\* the loop of _extract_date_precise without its try/except: the first
\* matching rule answers, also when its resolver raised
extract_date_uncaught(text, fz, n) ==
    LET matching == {i \in 1..NDateRules : DateSearch(i, text) # 0}
        first    == CHOOSE i \in matching : \A j \in matching : i <= j
    IN  IF matching = {} THEN DateLoop(NDateRules + 1, text, fz, n)
        ELSE [date |-> DateRuleResult(first, text, n), confidence |-> 90,
              rule |-> first]

extract_date_precise(text, fz, n) == DateLoop(1, text, fz, n)

IsPeriod(t) == t.k = "w" /\ t.s \in {"am", "pm"}

NTimeRules == 13

\* does time_patterns[i] match the text at token p
time_patterns(i, text, p) ==
    LET t == text[p] IN
    CASE i = 1  -> \/ t.k = "hmp"
                   \/ t.k = "hm" /\ Has(text, p + 1) /\ IsPeriod(text[p + 1])
      [] i = 2  -> \/ t.k \in {"hp", "hmp"}
                   \/ TrailDigits(t) >= 0 /\ Has(text, p + 1) /\ IsPeriod(text[p + 1])
      [] i = 3  -> t.k = "hm"
      [] i = 4  -> \/ t.k \in {"mil", "iso"}
                   \/ t.k = "num" /\ t.s = "y" /\ t.c >= 1000
      [] i = 5  -> IsW(t, "morning")
      [] i = 6  -> IsW(t, "afternoon")
      [] i = 7  -> IsW(t, "evening")
      [] i = 8  -> IsW(t, "night")
      [] i = 9  -> IsW(t, "midnight")
      [] i = 10 -> IsW(t, "noon")
      [] i = 11 -> /\ Has(text, p + 2) /\ IsW(t, "half") /\ IsW(text[p + 1], "past")
                   /\ LeadDigits(text[p + 2]) >= 0
      [] i = 12 -> /\ Has(text, p + 2) /\ IsW(t, "quarter") /\ IsW(text[p + 1], "past")
                   /\ LeadDigits(text[p + 2]) >= 0
      [] i = 13 -> /\ Has(text, p + 2) /\ IsW(t, "quarter") /\ IsW(text[p + 1], "to")
                   /\ LeadDigits(text[p + 2]) >= 0
      [] OTHER  -> FALSE

TimeSearch(i, text) == FirstPos(text, LAMBDA p : time_patterns(i, text, p))

\* match.groups(): hour a, minute b, period s
TimeGroups(i, text, p) ==
    LET t == text[p] IN
    CASE i = 1  -> [a |-> t.a, b |-> t.b, s |-> IF t.k = "hmp" THEN t.s ELSE text[p + 1].s]
      [] i = 2  -> IF t.k = "hp" THEN [a |-> t.a, b |-> 0, s |-> t.s]
                   ELSE IF t.k = "hmp" THEN [a |-> t.b, b |-> 0, s |-> t.s]
                   ELSE [a |-> TrailDigits(t), b |-> 0, s |-> text[p + 1].s]
      [] i = 3  -> [a |-> t.a, b |-> t.b, s |-> ""]
      [] i = 4  -> IF t.k = "mil" THEN [a |-> t.a, b |-> t.b, s |-> ""]
                   ELSE IF t.k = "iso" THEN [a |-> t.a \div 100, b |-> t.a % 100, s |-> ""]
                   ELSE [a |-> t.c \div 100, b |-> t.c % 100, s |-> ""]
      [] i \in {11, 12, 13} -> [a |-> LeadDigits(text[p + 2]), b |-> 0, s |-> ""]
      [] OTHER  -> [a |-> 0, b |-> 0, s |-> ""]

\* a conversion that also adds twelve hours to 12 pm and keeps 12 am as 12
parse_12_hour_with_minutes_noon_shifted(hour, minute, period) ==
    <<IF period = "pm" THEN hour + 12 ELSE hour, minute>>

\* f"{hour_num:02d}:{minute_num:02d}" is the tuple <<hour_num, minute_num>>
parse_12_hour_with_minutes(hour, minute, period) ==
    LET hour_num == IF period = "pm" /\ hour # 12 THEN hour + 12
                    ELSE IF period = "am" /\ hour = 12 THEN 0
                    ELSE hour
    IN  <<hour_num, minute>>

parse_12_hour_simple(hour, period) == parse_12_hour_with_minutes(hour, 0, period)

parse_24_hour(hour, minute) ==
    IF 0 <= hour /\ hour <= 23 /\ 0 <= minute /\ minute <= 59
    THEN <<hour, minute>> ELSE TimeError

\* time_str[:2], time_str[2:] of the four digits
parse_military_time(hour, minute) == parse_24_hour(hour, minute)

parse_half_past(hour)    == <<hour, 30>>
parse_quarter_past(hour) == <<hour, 15>>
parse_quarter_to(hour)   == <<IF hour - 1 < 0 THEN 23 ELSE hour - 1, 45>>

\* a validation that looks at the minutes only
is_valid_time_minutes_only(t) == 0 <= t[2] /\ t[2] <= 59

is_valid_time(t) == 0 <= t[1] /\ t[1] <= 23 /\ 0 <= t[2] /\ t[2] <= 59

TimeHandler(i, g) ==
    CASE i = 1  -> parse_12_hour_with_minutes(g.a, g.b, g.s)
      [] i = 2  -> parse_12_hour_simple(g.a, g.s)
      [] i = 3  -> parse_24_hour(g.a, g.b)
      [] i = 4  -> parse_military_time(g.a, g.b)
      [] i = 5  -> <<9, 0>>
      [] i = 6  -> <<15, 0>>
      [] i = 7  -> <<18, 0>>
      [] i = 8  -> <<20, 0>>
      [] i = 9  -> <<0, 0>>
      [] i = 10 -> <<12, 0>>
      [] i = 11 -> parse_half_past(g.a)
      [] i = 12 -> parse_quarter_past(g.a)
      [] i = 13 -> parse_quarter_to(g.a)
      [] OTHER  -> TimeError

TimeRuleResult(i, text) ==
    LET matched(p) == IF p = 0 THEN NoTime
                      ELSE TimeHandler(i, TimeGroups(i, text, p))
    IN  matched(TimeSearch(i, text))

NoTimeResult == [time |-> NoTime, confidence |-> 0, rule |-> 0]

RECURSIVE TimeLoop(_, _)
TimeLoop(i, text) ==
    IF i > NTimeRules THEN NoTimeResult
    ELSE LET tried(parsed_time) ==
                 IF is_valid_time(parsed_time)
                 THEN [time |-> parsed_time, confidence |-> 90, rule |-> i]
                 ELSE TimeLoop(i + 1, text)
         IN  tried(TimeRuleResult(i, text))

extract_time_precise(text) == TimeLoop(1, text)

\* a validation that also rejects today and the 365th day
validate_parsed_datetime_strict(date_str, time_str, n) ==
    [errors |->
        (IF IsDate(date_str) /\ ~DateLT(n, date_str) THEN {"past"} ELSE {})
        \cup (IF IsDate(date_str) /\ toordinal(date_str) >= toordinal(n) + 365
              THEN {"too_far"} ELSE {}),
     suggestions |-> {}]

\* a validation that reports a weekend and a time outside business hours
\* as errors
validate_parsed_datetime_blocking(date_str, time_str, n) ==
    [errors |->
        (IF IsDate(date_str) /\ DateLT(date_str, n) THEN {"past"} ELSE {})
        \cup (IF IsDate(date_str) /\ toordinal(date_str) > toordinal(n) + 365
              THEN {"too_far"} ELSE {})
        \cup (IF IsDate(date_str) /\ weekday(date_str) >= 5 THEN {"weekend"} ELSE {})
        \cup (IF time_str # NoTime /\ (time_str[1] < 9 \/ time_str[1] >= 18)
              THEN {"business_hours"} ELSE {}),
     suggestions |-> {}]

\* errors and suggestions are sets of tags standing for the message texts
validate_parsed_datetime(date_str, time_str, n) ==
    [errors |->
        (IF IsDate(date_str) /\ DateLT(date_str, n) THEN {"past"} ELSE {})
        \cup (IF IsDate(date_str) /\ toordinal(date_str) > toordinal(n) + 365
              THEN {"too_far"} ELSE {}),
     suggestions |->
        (IF IsDate(date_str) /\ DateLT(date_str, n) THEN {"future_date"} ELSE {})
        \cup (IF IsDate(date_str) /\ toordinal(date_str) > toordinal(n) + 365
              THEN {"within_year"} ELSE {})
        \cup (IF IsDate(date_str) /\ weekday(date_str) >= 5 THEN {"weekend"} ELSE {})
        \cup (IF time_str # NoTime /\ (time_str[1] < 9 \/ time_str[1] >= 18)
              THEN {"business_hours"} ELSE {})]

\* parse_appointment_request without the division by components_found
parse_appointment_request_summed(text, fz, n) ==
    LET result(date_result, time_result) ==
            [date |-> date_result.date, time |-> time_result.time,
             confidence |-> date_result.confidence + time_result.confidence,
             date_rule |-> date_result.rule, time_rule |-> time_result.rule,
             errors |-> IF IsDate(date_result.date) THEN {} ELSE {"no_date"},
             suggestions |-> {"date_formats"}]
    IN  result(extract_date_precise(text, fz, n), extract_time_precise(text))

\* confidences are in hundredths
parse_appointment_request(text, fz, n) ==
    LET result(date_result, time_result, validation_result) ==
            LET d == date_result.date
                t == time_result.time
                components_found ==
                    (IF IsDate(d) THEN 1 ELSE 0) + (IF t # NoTime THEN 1 ELSE 0)
                total == date_result.confidence + time_result.confidence
            IN  [date |-> d,
                 time |-> t,
                 confidence |-> IF components_found > 0
                                THEN (IF total \div components_found < 100
                                      THEN total \div components_found ELSE 100)
                                ELSE total,
                 date_rule |-> date_result.rule,
                 time_rule |-> time_result.rule,
                 errors |-> (IF IsDate(d) THEN {} ELSE {"no_date"})
                            \cup validation_result.errors,
                 suggestions |-> (IF IsDate(d) THEN {} ELSE {"date_formats"})
                                 \cup (IF t # NoTime THEN {} ELSE {"no_time"})
                                 \cup validation_result.suggestions]
        validated(date_result, time_result) ==
            result(date_result, time_result,
                   validate_parsed_datetime(date_result.date, time_result.time, n))
    IN  validated(extract_date_precise(text, fz, n), extract_time_precise(text))

(***************************************************************************)
(* The parser alone: parse_appointment_request applied to one text.        *)
(***************************************************************************)
\* dates at which the parser object may have been constructed
NowDates == {<<2025, 6, 27>>, <<2024, 2, 29>>, <<2024, 3, 1>>, <<2025, 12, 31>>}

MaxIsoDay  == 13      \* ISO dates have days 1..MaxIsoDay, and the last days of a month

IsoYears   == {2025, 2026}
IsoMonths  == {1, 2, 6, 7, 11, 12}
IsoDays    == (1..MaxIsoDay) \cup {28, 29, 30, 31}
ValidIsoDates ==
    {dt \in IsoYears \X IsoMonths \X IsoDays : IsDate(date(dt[1], dt[2], dt[3]))}
ClockTimes == {0, 7, 9, 14, 15, 17, 21, 23} \X {0, 30}

\* strftime('%Y-%m-%d') and HH:MM as they stand in a text
IsoTok(dt) == Iso(dt[1], dt[2], dt[3])
HMTok(t)   == HM(t[1], t[2])

\* f"book appointment on {date_str} at {time_str}"
full_request(date_str, time_str) ==
    <<W("book"), W("appointment"), W("on"), IsoTok(date_str), W("at"), HMTok(time_str)>>

DayMonthTexts ==
    {<<Ord(d), W(m)>> : d \in {0, 5, 29, 30, 31}, m \in {"july", "feb", "augus", "jun"}}
    \cup {<<W(m), Ord(d)>> : d \in {5, 31}, m \in {"july", "feb"}}
    \cup {<<Nb(5), W("july")>>, <<W("july"), Nb(5)>>}
NumericTexts ==
    {<<Num(a, b)>> : a \in {0, 5, 12, 13, 31}, b \in {0, 2, 7, 12, 13, 31}}
    \cup {<<NumY(5, 7, y)>> : y \in {25, 75, 2025}}
    \cup {<<NumY(29, 2, 2024)>>, <<NumY(7, 31, 2025)>>, <<Num(29, 2)>>}
    \cup {<<NumY(27, 6, 2026)>>, <<NumY(28, 6, 2026)>>}
RelativeTexts ==
    {<<W(w)>> : w \in {"today", "tomorrow", "yesterday", "hello"}}
    \cup {<<W("next"), W("week")>>, <<W("in"), Nb(3), W("days")>>,
          <<W("in"), Nb(2), W("weeks")>>}
    \cup {<<W(q), W(w)>> : q \in {"next", "this", "on"}, w \in {"friday", "mon", "sunday"}}
\* texts on which several date rules match
OverlapTexts ==
    {<<Ord(5), W("july"), W("tomorrow")>>, <<W("tomorrow"), Ord(5), W("july")>>,
     <<Ord(30), W("feb"), W("tomorrow")>>, <<Num(31, 31), W("tomorrow")>>,
     <<Num(5, 7), Ord(6), W("august")>>, <<W("monday"), W("today")>>,
     <<W("next"), W("week"), W("friday")>>, <<Ord(31), W("jun"), Num(13, 13)>>,
     <<Num(5, 7), W("july"), Ord(9)>>}
TimeTexts ==
    {<<HMP(h, m, p)>> : h \in {3, 12, 13}, m \in {30, 75}, p \in {"am", "pm"}}
    \cup {<<HP(h, p)>> : h \in {0, 3, 12, 13}, p \in {"am", "pm"}}
    \cup {<<Nb(2), W("pm")>>, <<HM(15, 30)>>, <<HM(25, 0)>>, <<HM(9, 60)>>,
          <<Mil(15, 30)>>, <<Mil(25, 0)>>}
    \cup {<<W(w)>> : w \in {"morning", "afternoon", "evening", "night", "midnight", "noon"}}
    \cup {<<W("half"), W("past"), Nb(h)>> : h \in {5, 24}}
    \cup {<<W("quarter"), W(q), Nb(h)>> : q \in {"past", "to"}, h \in {0, 5, 25}}
MixedTexts ==
    {<<Ord(5), W("july"), W("at"), HMP(3, 30, "pm")>>,
     <<Ord(4), W("augus"), HMP(3, 30, "pm")>>,
     <<W("book"), W("appointment"), W("at"), HP(3, "pm")>>,
     <<W("book"), W("a"), W("meeting")>>}
IsoTexts == {<<IsoTok(dt)>> : dt \in ValidIsoDates}
RebuiltTexts == {full_request(dt, t) : dt \in ValidIsoDates, t \in ClockTimes}

ParserTexts ==
    DayMonthTexts \cup NumericTexts \cup RelativeTexts \cup OverlapTexts
    \cup TimeTexts \cup MixedTexts \cup IsoTexts \cup RebuiltTexts

\* what dateutil may yield: it raises, returns the default (now), or a date
FuzzyOutcomes(n) == {ValueError, n, <<2025, 7, 10>>}

InitRest ==
    /\ sessions = <<>> /\ events = {} /\ busy = {} /\ last = <<>>
    /\ gsessions = <<>> /\ calls = <<>> /\ glast = <<>> /\ shared = FALSE
    /\ user_states = <<>> /\ flast = <<>>
    /\ conversation_history = <<>> /\ added = <<>>
    /\ InitManagers

InitParser ==
    /\ now \in NowDates
    /\ today = now
    /\ ptext \in ParserTexts
    /\ pfuzzy \in FuzzyOutcomes(now)
    /\ pres = <<>>
    /\ InitRest

\* result = advanced_parser.parse_appointment_request(text)
ParseCall ==
    /\ pres = <<>>
    /\ pres' = <<parse_appointment_request(ptext, pfuzzy, now)>>
    /\ UNCHANGED <<now, today, ptext, pfuzzy, sessions, events, busy, last,
                   gsessions, calls, glast, shared, user_states, flast,
                   conversation_history, added,
                   user_contexts, active_sessions, slast, is_running, loops, stopped>>

SpecParser == InitParser /\ [][ParseCall]_vars

(***************************************************************************)
(* The shared parser in a running process: advanced_parser is built once,  *)
(* at import, and the days pass before a request is parsed.                *)
(***************************************************************************)
MaxDaysRunning == 2      \* days the process runs before the request is parsed

InitClock ==
    /\ now \in NowDates
    /\ today = now
    /\ ptext \in RelativeTexts \cup DayMonthTexts
    /\ pfuzzy \in FuzzyOutcomes(now)
    /\ pres = <<>>
    /\ InitRest

\* a day passes; self.now stays what __init__ stored
Midnight ==
    /\ pres = <<>>
    /\ toordinal(today) - toordinal(now) < MaxDaysRunning
    /\ today' = NextDay(today)
    /\ UNCHANGED <<now, ptext, pfuzzy, pres, sessions, events, busy, last,
                   gsessions, calls, glast, shared, user_states, flast,
                   conversation_history, added,
                   user_contexts, active_sessions, slast, is_running, loops, stopped>>

NextClock == Midnight \/ ParseCall

SpecClock == InitClock /\ [][NextClock]_vars

(***************************************************************************)
(* Substring tests on a message ("kw in message_lower").  The words of the *)
(* model's texts that contain another keyword are listed here.             *)
(***************************************************************************)
\* the keywords (without a blank) that occur inside word w
Subs(w) ==
    {w} \cup (CASE w = "book" -> {"ok"}
                [] w = "reschedule" -> {"schedule"}
                [] w = "show" -> {"how"}
                [] w = "this" -> {"hi"}
                [] w = "yesterday" -> {"yes"}
                [] OTHER -> {})

\* the keyword parts that word w starts with
Starts(w) ==
    {w} \cup (CASE w = "meeting" -> {"me"}
                [] w = "cancel" -> {"can"}
                [] w = "days" -> {"day"}
                [] w = "weeks" -> {"week"}
                [] OTHER -> {})

\* kw (no blank in it) occurs in the text
Contains(text, kw) ==
    \E p \in 1..Len(text) :
        LET t == text[p] IN
        \/ t.k = "w" /\ kw \in Subs(t.s)
        \/ kw = ":" /\ t.k \in {"hm", "hmp"}
        \/ kw \in {"am", "pm"} /\ t.k \in {"hmp", "hp"} /\ t.s = kw

\* the two-word keyword "a b" occurs in the text: the word a, a blank, and a
\* word starting with b
Contains2(text, a, b) ==
    \E p \in 1..(Len(text) - 1) :
        IsW(text[p], a) /\ text[p + 1].k = "w" /\ b \in Starts(text[p + 1].s)

(***************************************************************************)
(* EnhancedCalendarManager (enhanced_calendar.py): the calendar            *)
(***************************************************************************)
business_start == 9
business_end   == 18

\* _generate_time_slots
generate_time_slots == {<<h, 0>> : h \in business_start..(business_end - 1)}

\* get_availability(date_str): the slots not booked on that date
get_availability(date_str, ev, bz) ==
    {slot \in generate_time_slots : <<date_str, slot>> \notin (ev \cup bz)}

(***************************************************************************)
(* PreciseAppointmentScheduler (precise_appointment_scheduler.py)          *)
(***************************************************************************)
\* the result dict; date .. event are the keys of appointment_details
BaseResult ==
    [empty |-> FALSE, success |-> FALSE, next_action |-> "clarify",
     date |-> NoDate, time |-> NoTime,
     requested_date |-> NoDate, requested_time |-> NoTime,
     event |-> FALSE, errors |-> {}]

\* the empty dict {} that current_context starts as
EmptyContext == [BaseResult EXCEPT !.empty = TRUE, !.next_action = None]

AlternativeDays == 10

suggest_alternative_dates(requested_date, result, ev, bz) ==
    LET alternative_dates ==
            {i \in 1..AlternativeDays :
                /\ weekday(AddDays(requested_date, i)) < 5
                /\ get_availability(AddDays(requested_date, i), ev, bz) # {}}
    IN  IF alternative_dates # {}
        THEN [result EXCEPT !.success = FALSE,
                            !.requested_date = requested_date,
                            !.next_action = "select_alternative_date"]
        ELSE [result EXCEPT !.success = FALSE]

suggest_alternatives_for_unavailable_slot(date_str, time_str, available_slots, result, ev, bz) ==
    IF available_slots # {}
    THEN [result EXCEPT !.success = FALSE,
                        !.requested_date = date_str,
                        !.requested_time = time_str,
                        !.next_action = "select_alternative_time"]
    ELSE suggest_alternative_dates(date_str, result, ev, bz)

\* a scheduler that books the requested slot without looking at the free slots
handle_exact_datetime_request_unchecked(date_str, time_str, result, ev, bz, ok) ==
    IF ok
    THEN [result |-> [result EXCEPT !.success = TRUE,
                                    !.date = date_str,
                                    !.time = time_str,
                                    !.event = TRUE,
                                    !.next_action = "confirmed"],
          created |-> {<<date_str, time_str>>},
          failed  |-> FALSE]
    ELSE [result |-> [result EXCEPT !.success = FALSE,
                                    !.errors = {"calendar"}],
          created |-> {},
          failed  |-> TRUE]

\* ok: create_event_with_details returns an event id (it raises otherwise)
handle_exact_datetime_request(date_str, time_str, result, ev, bz, ok) ==
    LET available_slots == get_availability(date_str, ev, bz)
    IN  IF time_str \in available_slots
        THEN IF ok
             THEN [result |-> [result EXCEPT !.success = TRUE,
                                             !.date = date_str,
                                             !.time = time_str,
                                             !.event = TRUE,
                                             !.next_action = "confirmed"],
                   created |-> {<<date_str, time_str>>},
                   failed  |-> FALSE]
             ELSE [result |-> [result EXCEPT !.success = FALSE,
                                             !.errors = {"calendar"}],
                   created |-> {},
                   failed  |-> TRUE]
        ELSE [result |-> suggest_alternatives_for_unavailable_slot(
                             date_str, time_str, available_slots, result, ev, bz),
              created |-> {},
              failed  |-> FALSE]

handle_date_only_request(date_str, result, ev, bz) ==
    IF get_availability(date_str, ev, bz) # {}
    THEN [result EXCEPT !.success = FALSE,
                        !.date = date_str,
                        !.next_action = "select_time"]
    ELSE suggest_alternative_dates(date_str, result, ev, bz)

TimeOnlyDays == 7

handle_time_only_request(time_str, result, ev, bz, td) ==
    LET available_dates ==
            {i \in 1..TimeOnlyDays :
                /\ weekday(AddDays(td, i)) < 5
                /\ time_str \in get_availability(AddDays(td, i), ev, bz)}
    IN  IF available_dates # {}
        THEN [result EXCEPT !.success = FALSE,
                            !.time = time_str,
                            !.next_action = "select_date"]
        ELSE [result EXCEPT !.success = FALSE]

\* schedule_appointment(user_request): the result dict and the events created
\* (the request is parsed once, and the branches read that one parse result)
schedule_appointment(user_request, fz, n, td, ev, bz, ok) ==
    LET plain(r) == [result |-> r, created |-> {}, failed |-> FALSE]
        branch(parse_result) ==
            IF parse_result.errors # {}
            THEN plain([BaseResult EXCEPT !.errors = parse_result.errors])
            ELSE IF IsDate(parse_result.date) /\ parse_result.time # NoTime
            THEN handle_exact_datetime_request(parse_result.date, parse_result.time,
                                               BaseResult, ev, bz, ok)
            ELSE IF IsDate(parse_result.date)
            THEN plain(handle_date_only_request(parse_result.date, BaseResult, ev, bz))
            ELSE IF parse_result.time # NoTime
            THEN plain(handle_time_only_request(parse_result.time, BaseResult, ev, bz, td))
            ELSE plain(BaseResult)
    IN  CHOOSE r \in {branch(parse_result) :
                        parse_result \in {parse_appointment_request(text, fz, n) :
                                            text \in {user_request}}} : TRUE

(***************************************************************************)
(* EnhancedBookingAgent (enhanced_booking_agent.py)                        *)
(***************************************************************************)
AnyOf(text, kws) == \E kw \in kws : Contains(text, kw)

detect_intent(message, session) ==
    LET last_action == session.last_action
        shortcut ==
            IF last_action = "awaiting_time_selection"
            THEN (IF AnyOf(message, {":", "am", "pm", "morning", "afternoon", "evening"})
                  THEN "time_selection" ELSE None)
            ELSE IF last_action = "awaiting_date_selection"
            THEN (IF AnyOf(message, {"monday", "tuesday", "wednesday", "thursday",
                                     "friday", "july", "august", "tomorrow"})
                  THEN "date_selection" ELSE None)
            ELSE IF last_action = "awaiting_confirmation"
            THEN (IF AnyOf(message, {"yes", "confirm", "book", "ok", "sure"})
                     \/ Contains2(message, "go", "ahead")
                  THEN "confirmation" ELSE None)
            ELSE None
    IN  IF shortcut # None THEN shortcut
        ELSE IF AnyOf(message, {"book", "schedule", "appointment", "meeting",
                                "reserve", "arrange"})
        THEN "appointment_booking"
        ELSE IF AnyOf(message, {"available", "availability", "free", "slots", "when"})
                \/ Contains2(message, "show", "me")
        THEN "availability_check"
        ELSE IF AnyOf(message, {"hello", "hi", "hey"})
                \/ Contains2(message, "good", "morning")
                \/ Contains2(message, "good", "afternoon")
        THEN "greeting"
        ELSE IF AnyOf(message, {"help", "how", "commands", "guide"})
                \/ Contains2(message, "what", "can")
        THEN "help"
        ELSE "general_query"

NewSession ==
    [init |-> TRUE, conversation_history |-> <<>>,
     current_context |-> EmptyContext, last_action |-> None]

NoSession == [NewSession EXCEPT !.init = FALSE]

\* a handler's outcome: the session, the events created, whether event
\* creation was attempted and failed
Outcome(session, created, failed) ==
    [session |-> session, created |-> created, failed |-> failed]

\* session['current_context'] = result; session['last_action'] = result.get('next_action', 'completed')
StoreResult(session, r) ==
    Outcome([session EXCEPT !.current_context = r.result,
                            !.last_action = r.result.next_action],
            r.created, r.failed)

handle_appointment_booking(message, fz, session, n, td, ev, bz, ok) ==
    StoreResult(session, schedule_appointment(message, fz, n, td, ev, bz, ok))

\* a time selection that marks the dialogue completed when no time is found
handle_time_selection_advancing(message, fz, session, n, td, ev, bz, ok) ==
    LET date_str == session.current_context.date
        selected(parse_result) ==
            IF parse_result.time # NoTime /\ IsDate(date_str)
            THEN StoreResult(session,
                     schedule_appointment(full_request(date_str, parse_result.time),
                                          date_str, n, td, ev, bz, ok))
            ELSE Outcome([session EXCEPT !.last_action = "completed"], {}, FALSE)
    IN  selected(parse_appointment_request(message, fz, n))

handle_time_selection(message, fz, session, n, td, ev, bz, ok) ==
    LET date_str == session.current_context.date
        selected(parse_result) ==
            IF parse_result.time # NoTime /\ IsDate(date_str)
            THEN StoreResult(session,
                     schedule_appointment(full_request(date_str, parse_result.time),
                                          date_str, n, td, ev, bz, ok))
            ELSE Outcome(session, {}, FALSE)
    IN  selected(parse_appointment_request(message, fz, n))

handle_date_selection(message, fz, session, n, td, ev, bz, ok) ==
    LET time_str == session.current_context.time
        selected(parse_result) ==
            IF IsDate(parse_result.date) /\ time_str # NoTime
            THEN StoreResult(session,
                     schedule_appointment(full_request(parse_result.date, time_str),
                                          parse_result.date, n, td, ev, bz, ok))
            ELSE Outcome(session, {}, FALSE)
    IN  selected(parse_appointment_request(message, fz, n))

handle_confirmation(session, n, td, ev, bz, ok) ==
    LET appointment_details == session.current_context
        booked(r) == Outcome([session EXCEPT !.current_context = r.result,
                                             !.last_action = "completed"],
                             r.created, r.failed)
    IN  IF IsDate(appointment_details.date) /\ appointment_details.time # NoTime
        THEN booked(schedule_appointment(
                        full_request(appointment_details.date, appointment_details.time),
                        appointment_details.date, n, td, ev, bz, ok))
        ELSE Outcome(session, {}, FALSE)

\* f"show availability for {parse_result['date']}"
availability_request(date_str) ==
    <<W("show"), W("availability"), W("for"), IsoTok(date_str)>>

\* with no date in the message the handler fails on the name timedelta, which
\* the module does not import; the except clause turns that into a reply
handle_availability_check(message, fz, session, n, td, ev, bz, ok) ==
    LET shown(r) == Outcome(session, r.created, r.failed)
        checked(parse_result) ==
            IF IsDate(parse_result.date)
            THEN shown(schedule_appointment(availability_request(parse_result.date),
                                            parse_result.date, n, td, ev, bz, ok))
            ELSE Outcome(session, {}, FALSE)
    IN  checked(parse_appointment_request(message, fz, n))

\* the dispatch of process_message on the detected intent
Dispatch(intent, message, fz, session, n, td, ev, bz, ok) ==
    IF intent = "appointment_booking"
    THEN handle_appointment_booking(message, fz, session, n, td, ev, bz, ok)
    ELSE IF intent = "time_selection"
    THEN handle_time_selection(message, fz, session, n, td, ev, bz, ok)
    ELSE IF intent = "date_selection"
    THEN handle_date_selection(message, fz, session, n, td, ev, bz, ok)
    ELSE IF intent = "confirmation"
    THEN handle_confirmation(session, n, td, ev, bz, ok)
    ELSE IF intent = "availability_check"
    THEN handle_availability_check(message, fz, session, n, td, ev, bz, ok)
    ELSE Outcome(session, {}, FALSE)

(***************************************************************************)
(* The dialogue of EnhancedBookingAgent with its users                     *)
(***************************************************************************)
Users    == {"u1", "u2"}
MaxTurns == 2        \* messages handled per user

AgentNow == <<2025, 6, 27>>

\* the messages users send; fz is what dateutil's fuzzy parse makes of each
\* (it raises, or it returns the default date, the parser's now)
Messages ==
    <<[text |-> <<W("hello")>>, fz |-> ValueError],
      [text |-> <<W("book"), W("appointment"), W("on"), Ord(8), W("july"), W("at"), HP(3, "pm")>>,
       fz |-> <<2025, 7, 8>>],
      [text |-> <<W("book"), W("appointment"), W("on"), Ord(8), W("july")>>,
       fz |-> <<2025, 7, 8>>],
      [text |-> <<HP(3, "pm")>>, fz |-> AgentNow],
      [text |-> <<W("book"), W("a"), W("meeting")>>, fz |-> ValueError],
      [text |-> <<W("yes")>>, fz |-> ValueError],
      [text |-> <<W("book"), W("appointment"), W("at"), HP(3, "pm")>>, fz |-> AgentNow],
      [text |-> <<W("show"), W("me"), W("availability"), W("for"), Ord(8), W("july")>>,
       fz |-> <<2025, 7, 8>>],
      [text |-> <<W("tomorrow")>>, fz |-> ValueError],
      [text |-> <<HM(10, 0)>>, fz |-> AgentNow],
      [text |-> <<W("book"), W("appointment"), W("tomorrow"), W("at"), HP(3, "pm")>>,
       fz |-> <<2025, 6, 28>>],
      [text |-> <<W("book"), W("appointment"), W("on"), Ord(8), W("july"), W("at"), HP(8, "pm")>>,
       fz |-> <<2025, 7, 8>>]>>

\* the calendars the agent may face: free, the 15:00 slot of 8 July taken,
\* or all of 8 July taken
BusyChoices ==
    {{}, {<<<<2025, 7, 8>>, <<15, 0>>>>},
     {<<<<2025, 7, 8>>, slot>> : slot \in generate_time_slots}}

NoCall ==
    [user |-> None, msg |-> 0, intent |-> None, direct |-> FALSE,
     prev |-> NoSession, created |-> {}, failed |-> FALSE]

InitAgent ==
    /\ now = AgentNow
    /\ today = now
    /\ ptext = <<>> /\ pfuzzy = ValueError /\ pres = <<>>
    /\ sessions = [u \in Users |-> NoSession]
    /\ events = {}
    /\ busy \in BusyChoices
    /\ last = NoCall
    /\ gsessions = <<>> /\ calls = <<>> /\ glast = <<>> /\ shared = FALSE
    /\ user_states = <<>> /\ flast = <<>>
    /\ conversation_history = <<>> /\ added = <<>>
    /\ InitManagers

Turns(session) ==
    Cardinality({i \in 1..Len(session.conversation_history) :
                    session.conversation_history[i] = "user"})

\* process_message with one session object shared by all users who have
\* none yet
handle_message_shared_session(user_id, mi, max_turns) ==
    /\ Turns(sessions[user_id]) < max_turns
    /\ \E ok \in BOOLEAN, m \in {Messages[mi]} :
        LET s0 == IF sessions[user_id].init THEN sessions[user_id] ELSE NewSession
            s1 == [s0 EXCEPT !.conversation_history = Append(@, "user")]
        IN  \E intent \in {detect_intent(m.text, s1)} :
            \E out \in {Dispatch(intent, m.text, m.fz, s1, now, today,
                                 events, busy, ok)} :
                /\ sessions' = [u \in Users |->
                        IF u = user_id \/ ~(sessions[u].init \/ sessions[user_id].init)
                        THEN [out.session EXCEPT
                                 !.conversation_history = Append(@, "assistant")]
                        ELSE sessions[u]]
                /\ events' = events \cup out.created
                /\ last' = [user |-> user_id, msg |-> mi, intent |-> intent,
                            direct |-> FALSE, prev |-> sessions[user_id],
                            created |-> out.created, failed |-> out.failed]
    /\ UNCHANGED <<now, today, ptext, pfuzzy, pres, busy, gsessions, calls, glast,
                   shared, user_states, flast, conversation_history, added,
                   user_contexts, active_sessions, slast, is_running, loops, stopped>>

\* await agent.process_message(message, user_id), for a user who has sent
\* fewer than max_turns messages
handle_message(user_id, mi, max_turns) ==
    /\ Turns(sessions[user_id]) < max_turns
    /\ \E ok \in BOOLEAN, m \in {Messages[mi]} :
        LET s0 == IF sessions[user_id].init THEN sessions[user_id] ELSE NewSession
            s1 == [s0 EXCEPT !.conversation_history = Append(@, "user")]
        IN  \E intent \in {detect_intent(m.text, s1)} :
            \E out \in {Dispatch(intent, m.text, m.fz, s1, now, today,
                                 events, busy, ok)} :
                /\ sessions' = [sessions EXCEPT ![user_id] =
                        [out.session EXCEPT !.conversation_history = Append(@, "assistant")]]
                /\ events' = events \cup out.created
                /\ last' = [user |-> user_id, msg |-> mi, intent |-> intent,
                            direct |-> FALSE, prev |-> sessions[user_id],
                            created |-> out.created, failed |-> out.failed]
    /\ UNCHANGED <<now, today, ptext, pfuzzy, pres, busy, gsessions, calls, glast, shared, user_states, flast,
                   conversation_history, added,
                   user_contexts, active_sessions, slast, is_running, loops, stopped>>

process_message(user_id, mi) == handle_message(user_id, mi, MaxTurns)

NextAgent == \E u \in Users, mi \in 1..Len(Messages) : process_message(u, mi)

SpecAgent == InitAgent /\ [][NextAgent]_vars

(***************************************************************************)
(* Long dialogues with EnhancedBookingAgent: users who only greet or chat  *)
(***************************************************************************)
MaxHistoryTurns == 11     \* messages a user sends in a long dialogue

\* the messages of a long dialogue: "hello" and "tomorrow"
ChatMessages == {1, 9}

long_dialogue_message(user_id, mi) == handle_message(user_id, mi, MaxHistoryTurns)

NextHistory == \E u \in Users, mi \in ChatMessages : long_dialogue_message(u, mi)

SpecHistory == InitAgent /\ [][NextHistory]_vars

(***************************************************************************)
(* The handlers of EnhancedBookingAgent called on their own.  Through      *)
(* process_message no session ever has last_action awaiting_confirmation,  *)
(* so _handle_confirmation is exercised by calling it on a user's session. *)
(***************************************************************************)
\* await agent._handle_confirmation(message, user_id, agent.user_sessions[user_id]),
\* on a session whose dialogue is not completed yet
confirmation_call(user_id) ==
    /\ sessions[user_id].init
    /\ sessions[user_id].last_action # "completed"
    /\ \E ok \in BOOLEAN :
        \E out \in {handle_confirmation(sessions[user_id], now, today, events, busy, ok)} :
            /\ sessions' = [sessions EXCEPT ![user_id] = out.session]
            /\ events' = events \cup out.created
            /\ last' = [user |-> user_id, msg |-> 0, intent |-> "confirmation",
                        direct |-> TRUE, prev |-> sessions[user_id],
                        created |-> out.created, failed |-> out.failed]
    /\ UNCHANGED <<now, today, ptext, pfuzzy, pres, busy, gsessions, calls, glast, shared, user_states, flast,
                   conversation_history, added,
                   user_contexts, active_sessions, slast, is_running, loops, stopped>>

NextHandlers ==
    \/ \E u \in Users, mi \in 1..Len(Messages) : process_message(u, mi)
    \/ \E u \in Users : confirmation_call(u)

SpecHandlers == InitAgent /\ [][NextHandlers]_vars

(***************************************************************************)
(* _handle_time_selection and _handle_date_selection called on their own:  *)
(* the scheduler never sets last_action to awaiting_time_selection or      *)
(* awaiting_date_selection, so process_message never dispatches to them.   *)
(***************************************************************************)
\* the messages given to the two handlers: "hello", "3pm", "tomorrow", "10:00"
SelectionMessages == {1, 4, 9, 10}

\* await agent._handle_time_selection(message, user_id, agent.user_sessions[user_id])
time_selection_call(user_id, mi) ==
    /\ sessions[user_id].init
    /\ \E ok \in BOOLEAN, m \in {Messages[mi]} :
        \E out \in {handle_time_selection(m.text, m.fz, sessions[user_id], now, today,
                                          events, busy, ok)} :
            /\ sessions' = [sessions EXCEPT ![user_id] = out.session]
            /\ events' = events \cup out.created
            /\ last' = [user |-> user_id, msg |-> mi, intent |-> "time_selection",
                        direct |-> TRUE, prev |-> sessions[user_id],
                        created |-> out.created, failed |-> out.failed]
    /\ UNCHANGED <<now, today, ptext, pfuzzy, pres, busy, gsessions, calls, glast,
                   shared, user_states, flast, conversation_history, added,
                   user_contexts, active_sessions, slast, is_running, loops, stopped>>

\* await agent._handle_date_selection(message, user_id, agent.user_sessions[user_id])
date_selection_call(user_id, mi) ==
    /\ sessions[user_id].init
    /\ \E ok \in BOOLEAN, m \in {Messages[mi]} :
        \E out \in {handle_date_selection(m.text, m.fz, sessions[user_id], now, today,
                                          events, busy, ok)} :
            /\ sessions' = [sessions EXCEPT ![user_id] = out.session]
            /\ events' = events \cup out.created
            /\ last' = [user |-> user_id, msg |-> mi, intent |-> "date_selection",
                        direct |-> TRUE, prev |-> sessions[user_id],
                        created |-> out.created, failed |-> out.failed]
    /\ UNCHANGED <<now, today, ptext, pfuzzy, pres, busy, gsessions, calls, glast,
                   shared, user_states, flast, conversation_history, added,
                   user_contexts, active_sessions, slast, is_running, loops, stopped>>

\* the messages that lead a dialogue to the selection of a time or a date:
\* "hello", a request with a date only, a request with a time only
OpeningMessages == {1, 3, 7}

opening_message(user_id, mi) == handle_message(user_id, mi, MaxTurns)

\* a dialogue through process_message, and then one call of a handler
NextSelections ==
    \/ ~last.direct /\ \E u \in Users, mi \in OpeningMessages : opening_message(u, mi)
    \/ ~last.direct /\ \E u \in Users, mi \in SelectionMessages : time_selection_call(u, mi)
    \/ ~last.direct /\ \E u \in Users, mi \in SelectionMessages : date_selection_call(u, mi)

SpecSelections == InitAgent /\ [][NextSelections]_vars

(***************************************************************************)
(* DateTimeParser (date_time_parser.py), the parser of the LangGraph agent *)
(***************************************************************************)
FullMonthNames ==
    {"january", "february", "march", "april", "may", "june", "july", "august",
     "september", "october", "november", "december"}
FullWeekdayNames ==
    {"monday", "tuesday", "wednesday", "thursday", "friday", "saturday", "sunday"}

NDtpDateRules == 17

\* does the i-th pattern of DateTimeParser.date_patterns match at token p
dtp_date_patterns(i, text, p) ==
    LET t == text[p]
        two(a, b) == Has(text, p + 1) /\ IsW(t, a) /\ IsW(text[p + 1], b)
        day(q)    == q.k = "w" /\ q.s \in FullWeekdayNames
        month(q)  == q.k = "w" /\ q.s \in FullMonthNames
        in_n(units) == /\ Has(text, p + 2) /\ IsW(t, "in")
                       /\ text[p + 1].k = "ord" /\ text[p + 1].s = ""
                       /\ text[p + 2].k = "w" /\ text[p + 2].s \in units
    IN  CASE i = 1  -> IsW(t, "today")
          [] i = 2  -> IsW(t, "tomorrow")
          [] i = 3  -> IsW(t, "yesterday")
          [] i = 4  -> two("next", "week")
          [] i = 5  -> two("this", "week")
          [] i = 6  -> two("next", "month")
          [] i = 7  -> two("this", "month")
          [] i = 8  -> Has(text, p + 1) /\ IsW(t, "next") /\ day(text[p + 1])
          [] i = 9  -> Has(text, p + 1) /\ IsW(t, "this") /\ day(text[p + 1])
          [] i = 10 -> day(t)
          [] i = 11 -> t.k = "num" /\ t.s = "y"
          [] i = 12 -> Has(text, p + 1) /\ month(t) /\ LeadOrdinal(text[p + 1]) >= 0
          [] i = 13 -> Has(text, p + 1) /\ TrailOrdinal(t) >= 0 /\ month(text[p + 1])
          [] i = 14 -> in_n({"day", "days"})
          [] i = 15 -> in_n({"week", "weeks"})
          [] i = 16 -> /\ Has(text, p + 2) /\ IsW(t, "in") /\ IsW(text[p + 1], "a")
                       /\ IsW(text[p + 2], "week")
          [] i = 17 -> in_n({"month", "months"})
          [] OTHER  -> FALSE

\* dt + relativedelta(months=k)
AddMonths(dt, k) ==
    LET m0 == (dt[2] - 1) + k
        y  == dt[1] + (m0 \div 12)
        m  == (m0 % 12) + 1
    IN  <<y, m, IF dt[3] > DaysInMonth(y, m) THEN DaysInMonth(y, m) ELSE dt[3]>>

\* _parse_month_day: the coming such day, today's date where there is none
dtp_parse_month_day(month_num, day_num, n) ==
    IF ~IsDate(date(n[1], month_num, day_num)) THEN n
    ELSE IF DateLT(date(n[1], month_num, day_num), n)
    THEN (IF IsDate(date(n[1] + 1, month_num, day_num))
          THEN date(n[1] + 1, month_num, day_num) ELSE n)
    ELSE date(n[1], month_num, day_num)

\* _parse_date_format(month, day, year)
dtp_parse_date_format(month_num, day_num, year, n) ==
    LET year_num == IF year < 100 THEN (IF year < 50 THEN year + 2000 ELSE year + 1900)
                    ELSE year
    IN  IF IsDate(date(year_num, month_num, day_num)) THEN date(year_num, month_num, day_num)
        ELSE IF IsDate(date(year_num, day_num, month_num))
        THEN date(year_num, day_num, month_num)
        ELSE n

\* the handler of date rule i applied to the groups of its match at p
dtp_date_handler(i, text, p, n) ==
    LET t == text[p]
        ahead(wd, strict) ==
            LET d == weekdays(wd) - weekday(n)
            IN  AddDays(n, IF d < 0 \/ (strict /\ d = 0) THEN d + 7 ELSE d)
    IN  CASE i \in {1, 7} -> n
          [] i = 2  -> AddDays(n, 1)
          [] i = 3  -> PrevDay(n)
          [] i = 4  -> AddDays(n, 7)
          [] i = 5  -> ahead("monday", TRUE)
          [] i = 6  -> AddMonths(n, 1)
          [] i = 8  -> ahead(text[p + 1].s, TRUE)
          [] i = 9  -> ahead(text[p + 1].s, FALSE)
          [] i = 10 -> ahead(t.s, TRUE)
          [] i = 11 -> dtp_parse_date_format(t.a, t.b, t.c, n)
          [] i = 12 -> dtp_parse_month_day(months(t.s), LeadOrdinal(text[p + 1]), n)
          [] i = 13 -> dtp_parse_month_day(months(text[p + 1].s), TrailOrdinal(t), n)
          [] i = 14 -> AddDays(n, text[p + 1].a)
          [] i = 15 -> AddDays(n, 7 * text[p + 1].a)
          [] i = 16 -> AddDays(n, 7)
          [] i = 17 -> AddMonths(n, text[p + 1].a)
          [] OTHER  -> n

NoDtpDate == [date |-> NoDate, confidence |-> 0]

\* _extract_date from rule i on: every handler returns a date, so the first
\* pattern found supplies it (0.9); then dateutil's fuzzy parse (0.7)
RECURSIVE dtp_extract_date(_, _, _, _)
dtp_extract_date(i, text, fz, n) ==
    LET found(p) == IF p = 0 THEN dtp_extract_date(i + 1, text, fz, n)
                    ELSE [date |-> dtp_date_handler(i, text, p, n), confidence |-> 90]
    IN  IF i > NDtpDateRules
        THEN (IF IsDate(fz) /\ fz # n THEN [date |-> fz, confidence |-> 70]
              ELSE NoDtpDate)
        ELSE found(FirstPos(text, LAMBDA p : dtp_date_patterns(i, text, p)))

\* what time rule i yields: rules 1-3 and 5-13 have the patterns of the
\* advanced parser; rule 4 wants the word hours; _parse_24_hour falls back
\* to 09:00 where the advanced parser raises
dtp_time_rule(i, text) ==
    LET military(p) == IF p = 0 THEN NoTime
                       ELSE IF is_valid_time(<<text[p].a, text[p].b>>)
                       THEN <<text[p].a, text[p].b>> ELSE <<9, 0>>
        fallback(r) == IF i = 3 /\ r = TimeError THEN <<9, 0>> ELSE r
    IN  IF i = 4
        THEN military(FirstPos(text, LAMBDA p :
                 /\ text[p].k = "mil" /\ Has(text, p + 1)
                 /\ text[p + 1].k = "w" /\ text[p + 1].s \in {"hour", "hours"}))
        ELSE fallback(TimeRuleResult(i, text))

RECURSIVE dtp_extract_time(_, _)
dtp_extract_time(i, text) ==
    LET tried(time_str) ==
            IF is_valid_time(time_str) THEN [time |-> time_str, confidence |-> 90]
            ELSE dtp_extract_time(i + 1, text)
    IN  IF i > NTimeRules THEN [time |-> NoTime, confidence |-> 0]
        ELSE tried(dtp_time_rule(i, text))

\* parse_datetime(text): confidences in hundredths
parse_datetime(text, fz, n) ==
    LET result(date_result, time_result) ==
            LET parsed_components == (IF IsDate(date_result.date) THEN 1 ELSE 0)
                                     + (IF time_result.time # NoTime THEN 1 ELSE 0)
                total == date_result.confidence + time_result.confidence
            IN  [date |-> date_result.date,
                 time |-> time_result.time,
                 \* parsed_components names the match of the date: a pattern
                 \* (0.9) or 'fuzzy parsing' (0.7)
                 date_confidence |-> date_result.confidence,
                 confidence |-> IF parsed_components > 0
                                THEN total \div parsed_components ELSE 0]
    IN  result(dtp_extract_date(1, text, fz, n), dtp_extract_time(1, text))

(***************************************************************************)
(* The LangGraph agent (enhanced_langgraph_agent.py)                       *)
(***************************************************************************)
\* the messages sent to the LangGraph agent, with dateutil's fuzzy outcome
GraphMessages ==
    <<[text |-> <<W("book"), W("a"), W("meeting"), W("tomorrow"), W("at"), Nb(2), W("pm")>>,
       fz |-> <<2025, 6, 28>>],
      [text |-> <<W("book"), W("appointment"), W("on"), Ord(8), W("july"), W("at"), HP(8, "pm")>>,
       fz |-> <<2025, 7, 8>>],
      [text |-> <<W("schedule"), W("it"), W("for"), W("jul"), Nb(10), W("at"), HP(8, "pm")>>,
       fz |-> <<2025, 7, 10>>],
      [text |-> <<W("book"), W("a"), W("meeting"), W("at"), Nb(7), W("am")>>,
       fz |-> AgentNow],
      [text |-> <<W("yes")>>, fz |-> ValueError],
      [text |-> <<W("book"), W("appointment"), W("on"), Ord(8), W("july"), W("at"), HP(3, "pm")>>,
       fz |-> <<2025, 7, 8>>],
      [text |-> <<W("sure"), W("cancel")>>, fz |-> ValueError],
      [text |-> <<W("hello")>>, fz |-> ValueError]>>

\* the session a user starts with; extracted_info {} has no date, no time
InitialSession ==
    [init |-> TRUE, messages |-> <<>>, user_intent |-> None,
     extracted_info |-> [date |-> NoDate, time |-> NoTime, confidence |-> 0,
                         date_confidence |-> 0, validation_issues |-> {}],
     current_step |-> "start", available_slots |-> {}, selected_slot |-> NoTime,
     booking_confirmed |-> FALSE, suggestions |-> {}]

\* the number of the keywords (words, and pairs of words) found in the text
Score(text, words, pairs) ==
    Cardinality({kw \in words : Contains(text, kw)})
    + Cardinality({pr \in pairs : Contains2(text, pr[1], pr[2])})

\* the intents dict of _understand_intent, in its order: the hits of
\* intent number i in the text, and its name
IntentScore(intent, text) ==
    CASE intent = 1 ->
             Score(text, {"book", "schedule", "appointment", "meeting", "call",
                          "reserve", "arrange", "plan", "tomorrow", "today"},
                   {<<"set", "up">>, <<"next", "week">>})
      [] intent = 2 ->
             Score(text, {"change", "modify", "update", "reschedule", "move", "shift"},
                   {<<"different", "time">>, <<"another", "day">>})
      [] intent = 3 ->
             Score(text, {"cancel", "delete", "remove", "abort"}, {<<"call", "off">>})
      [] intent = 4 ->
             Score(text, {"available", "free", "availability", "open", "slots", "when"},
                   {})
      [] intent = 5 ->
             Score(text, {"yes", "confirm", "perfect", "ok", "okay", "sure"},
                   {<<"book", "it">>, <<"that", "works">>, <<"sounds", "good">>,
                    <<"go", "ahead">>})
      [] OTHER ->
             Score(text, {"help", "how", "commands", "options", "guide"},
                   {<<"what", "can">>})

IntentName(intent) ==
    CASE intent = 1 -> "booking_request" [] intent = 2 -> "modify_booking"
      [] intent = 3 -> "cancel_booking"  [] intent = 4 -> "availability_check"
      [] intent = 5 -> "confirmation"    [] OTHER -> "help"

\* the place of intent number i in the order booking, confirmation,
\* availability check, modify, cancel, help
EnumRank(intent) ==
    CASE intent = 1 -> 1 [] intent = 5 -> 2 [] intent = 4 -> 3
      [] intent = 2 -> 4 [] intent = 3 -> 5 [] OTHER -> 6

\* _understand_intent: max() returns the first intent of the highest score
understand_intent(state, text) ==
    LET highest == {i \in 1..6 : IntentScore(i, text) > 0
                        /\ \A j \in 1..6 : IntentScore(j, text) <= IntentScore(i, text)}
        detected_intent ==
            IF highest = {} THEN "general_question"
            ELSE IntentName(CHOOSE i \in highest : \A j \in highest : i <= j)
    IN  [state EXCEPT
            !.user_intent =
                IF state.current_step = "awaiting_confirmation"
                   /\ AnyOf(text, {"yes", "confirm", "ok", "sure"})
                THEN "confirmation" ELSE detected_intent,
            !.current_step = "intent_understood"]

\* _extract_datetime: a parsed date or time replaces the stored one, whatever
\* the confidences.  date_confidence is a history field: the confidence of
\* the parse that set the stored date (0 for a default).
extract_datetime(state, text, fz, n) ==
    LET extracted(parsed_result) ==
            [state EXCEPT
                !.extracted_info =
                    [@ EXCEPT
                        !.date = IF IsDate(parsed_result.date)
                                 THEN parsed_result.date ELSE @,
                        !.date_confidence = IF IsDate(parsed_result.date)
                                            THEN parsed_result.date_confidence ELSE @,
                        !.time = IF parsed_result.time # NoTime
                                 THEN parsed_result.time ELSE @,
                        !.confidence = parsed_result.confidence],
                !.suggestions =
                    IF ~IsDate(parsed_result.date) /\ parsed_result.time = NoTime
                    THEN {"formats"} ELSE @,
                !.current_step = "datetime_extracted"]
    IN  CHOOSE st \in {extracted(parsed_result) :
                         parsed_result \in {parse_datetime(text, fz, n)}} : TRUE

\* _validate_datetime; td is datetime.now(self.timezone).date()
validate_datetime(state, td) ==
    LET extracted_info == state.extracted_info
        date_issues ==
            IF ~IsDate(extracted_info.date) THEN {}
            ELSE IF DateLT(extracted_info.date, td) THEN {"past"}
            ELSE IF toordinal(extracted_info.date) > toordinal(td) + 365 THEN {"too_far"}
            ELSE {}
        time_issues ==
            IF extracted_info.time # NoTime
               /\ (extracted_info.time[1] < business_start
                   \/ extracted_info.time[1] >= business_end)
            THEN {"business_hours"} ELSE {}
    IN  [state EXCEPT
            !.extracted_info =
                [@ EXCEPT !.date = IF IsDate(@) THEN @ ELSE AddDays(td, 1),
                          !.validation_issues = date_issues \cup time_issues],
            !.current_step = "datetime_validated"]

\* _check_availability
check_availability(state, ev, bz) ==
    LET requested_time == state.extracted_info.time
        checked(available_slots) ==
            [state EXCEPT
                !.available_slots = available_slots,
                !.selected_slot = IF requested_time \in available_slots
                                  THEN requested_time ELSE @,
                !.current_step = IF requested_time \in available_slots
                                 THEN "slot_available"
                                 ELSE IF requested_time # NoTime THEN "slot_unavailable"
                                 ELSE "showing_options"]
    IN  checked(get_availability(state.extracted_info.date, ev, bz))

\* a node that appends its reply (message 0) and sets the step:
\* _suggest_alternatives, _confirm_booking, _handle_modification,
\* _handle_cancellation, _provide_help, _general_response
reply_node(state, step) ==
    [state EXCEPT !.messages = Append(@, 0), !.current_step = step]

\* _create_booking calls calendar_manager.create_event, a method that
\* EnhancedCalendarManager does not have: the except clause answers
create_booking(state) == reply_node(state, "booking_error")

_route_after_intent(state) ==
    CASE state.user_intent = "booking_request" -> "extract_datetime"
      [] state.user_intent = "modify_booking"  -> "handle_modification"
      [] state.user_intent = "cancel_booking"  -> "handle_cancellation"
      [] state.user_intent = "help"            -> "provide_help"
      [] OTHER                                 -> "general_response"

_route_after_validation(state) ==
    IF state.extracted_info.validation_issues # {}
    THEN "suggest_alternatives" ELSE "check_availability"

_route_after_availability(state) ==
    IF state.current_step = "slot_available" THEN "confirm_booking"
    ELSE IF state.current_step \in {"slot_unavailable", "showing_options"}
    THEN "suggest_alternatives"
    ELSE "continue"

\* the path maps given to add_conditional_edges in _create_graph
IntentPathMap ==
    [extract_datetime |-> "extract_datetime", modify_booking |-> "handle_modification",
     cancel_booking |-> "handle_cancellation", help |-> "provide_help",
     general |-> "general_response"]
ValidationPathMap ==
    [check_availability |-> "check_availability",
     suggest_alternatives |-> "suggest_alternatives",
     ask_clarification |-> "provide_help"]
AvailabilityPathMap ==
    [confirm |-> "confirm_booking", suggest |-> "suggest_alternatives",
     continue |-> "END"]

\* the outcome of graph.ainvoke: the state reached, and whether it raised
Done(state)  == [state |-> state, raised |-> FALSE]
Raise(state) == [state |-> state, raised |-> TRUE]

\* the step set by the node that ends the turn
EndStep(node) ==
    CASE node = "suggest_alternatives" -> "alternatives_suggested"
      [] node = "handle_modification"  -> "awaiting_modification_details"
      [] node = "handle_cancellation"  -> "awaiting_cancellation_confirmation"
      [] node = "provide_help"         -> "help_provided"
      [] OTHER                         -> "general_response_provided"

\* self.graph.ainvoke: the compiled workflow of _create_graph.  A router's
\* answer that is no key of its path map raises KeyError; the edge
\* confirm_booking -> create_booking is unconditional.
ainvoke(state, text, fz, n, td, ev, bz) ==
    LET after_availability(st) ==
            IF _route_after_availability(st) \notin DOMAIN AvailabilityPathMap
            THEN Raise(st)
            ELSE LET node == AvailabilityPathMap[_route_after_availability(st)]
                 IN  IF node = "confirm_booking"
                     THEN Done(create_booking(reply_node(st, "awaiting_confirmation")))
                     ELSE IF node = "suggest_alternatives"
                     THEN Done(reply_node(st, EndStep(node)))
                     ELSE Done(st)
        after_validation(st) ==
            LET node == ValidationPathMap[_route_after_validation(st)]
            IN  IF node = "check_availability"
                THEN CHOOSE r \in {after_availability(s) :
                                     s \in {check_availability(st, ev, bz)}} : TRUE
                ELSE Done(reply_node(st, EndStep(node)))
        after_intent(st) ==
            IF _route_after_intent(st) \notin DOMAIN IntentPathMap
            THEN Raise(st)
            ELSE LET node == IntentPathMap[_route_after_intent(st)]
                 IN  IF node = "extract_datetime"
                     THEN CHOOSE r \in {after_validation(s) :
                              s \in {validate_datetime(extract_datetime(st, text, fz, n), td)}} :
                              TRUE
                     ELSE Done(reply_node(st, EndStep(node)))
    IN  CHOOSE r \in {after_intent(s) : s \in {understand_intent(state, text)}} : TRUE

MaxInFlight   == 2      \* process_message calls of one user in flight at once
MaxGraphTurns == 2      \* messages sent by the users together
Slots         == 1..MaxInFlight

NoGraphSession == [InitialSession EXCEPT !.init = FALSE]
IdleCall ==
    [pc |-> "idle", msg |-> 0, state |-> NoGraphSession, input |-> NoGraphSession,
     raised |-> FALSE, alone |-> TRUE]

InitGraph ==
    /\ now = AgentNow /\ today = AgentNow
    /\ ptext = <<>> /\ pfuzzy = NoDate /\ pres = None
    /\ sessions = [u \in Users |-> NoSession] /\ events = {} /\ last = <<>>
    /\ busy \in BusyChoices
    /\ gsessions = [u \in Users |-> NoGraphSession]
    /\ calls = [u \in Users |-> [c \in Slots |-> IdleCall]]
    /\ glast = <<>>
    /\ shared \in BOOLEAN
    /\ user_states = <<>> /\ flast = <<>>
    /\ conversation_history = <<>> /\ added = <<>>
    /\ InitManagers

\* the user messages of a history
Sent(messages) == SelectSeq(messages, LAMBDA m : m > 0)

\* the number of user messages in the sessions of the users U
RECURSIVE Load(_)
Load(U) ==
    IF U = {} THEN 0
    ELSE LET u == CHOOSE x \in U : TRUE
         IN  Len(Sent(gsessions[u].messages)) + Load(U \ {u})

\* process_message up to the await: the session is created if absent, the
\* user's message appended, and the session handed to graph.ainvoke.  A new
\* call is numbered with the first free slot of its user.
begin_message(user_id, c, mi) ==
    /\ calls[user_id][c].pc = "idle"
    /\ \A d \in Slots : d < c => calls[user_id][d].pc # "idle"
    /\ Load(Users) < MaxGraphTurns
    /\ LET s0 == IF gsessions[user_id].init THEN gsessions[user_id] ELSE InitialSession
           s1 == [s0 EXCEPT !.messages = Append(@, mi)]
       IN  /\ gsessions' = [gsessions EXCEPT ![user_id] = s1]
           /\ calls' = [calls EXCEPT ![user_id] =
                  [d \in Slots |->
                      IF d = c
                      THEN [pc |-> "invoked", msg |-> mi, state |-> s1, input |-> s1,
                            raised |-> FALSE,
                            alone |-> \A e \in Slots : calls[user_id][e].pc = "idle"]
                      ELSE IF calls[user_id][d].pc = "idle" THEN IdleCall
                      ELSE [calls[user_id][d] EXCEPT !.alone = FALSE]]]
    /\ UNCHANGED <<now, today, ptext, pfuzzy, pres, sessions, events, busy, last,
                   glast, shared, user_states, flast,
                   conversation_history, added,
                   user_contexts, active_sessions, slast, is_running, loops, stopped>>

\* the state the nodes of a call work on: the values read at ainvoke, with
\* the session's own messages list and extracted_info dict when shared
Working(user_id, c) ==
    IF shared
    THEN [calls[user_id][c].state EXCEPT
             !.messages = gsessions[user_id].messages,
             !.extracted_info = gsessions[user_id].extracted_info]
    ELSE calls[user_id][c].state

\* the nodes of one call run; what they write into a shared list or dict
\* is in the session at once.  The runs followed are those in which the
\* last message is a user's.
run_graph(user_id, c) ==
    /\ calls[user_id][c].pc = "invoked"
    /\ \E state \in {Working(user_id, c)} :
        /\ state.messages[Len(state.messages)] > 0
        /\ \E m \in {GraphMessages[state.messages[Len(state.messages)]]} :
           \E r \in {ainvoke(state, m.text, m.fz, now, today, events, busy)} :
              /\ calls' = [calls EXCEPT ![user_id][c] =
                              [@ EXCEPT !.pc = "returned", !.state = r.state,
                                        !.input = state, !.raised = r.raised]]
              /\ gsessions' = IF shared
                              THEN [gsessions EXCEPT
                                       ![user_id].messages = r.state.messages,
                                       ![user_id].extracted_info = r.state.extracted_info]
                              ELSE gsessions
    /\ UNCHANGED <<now, today, ptext, pfuzzy, pres, sessions, events, busy, last,
                   glast, shared, user_states, flast,
                   conversation_history, added,
                   user_contexts, active_sessions, slast, is_running, loops, stopped>>

\* process_message after the await: the result replaces the session, or
\* the except clause answers and leaves the session as it is
finish_message(user_id, c) ==
    /\ calls[user_id][c].pc = "returned"
    /\ gsessions' = IF calls[user_id][c].raised THEN gsessions
                    ELSE [gsessions EXCEPT ![user_id] = Working(user_id, c)]
    /\ calls' = [calls EXCEPT ![user_id][c] = IdleCall]
    /\ glast' = [user |-> user_id, msg |-> calls[user_id][c].msg,
                 raised |-> calls[user_id][c].raised,
                 prev |-> gsessions[user_id], input |-> calls[user_id][c].input,
                 alone |-> calls[user_id][c].alone]
    /\ UNCHANGED <<now, today, ptext, pfuzzy, pres, sessions, events, busy, last, shared, user_states, flast,
                   conversation_history, added,
                   user_contexts, active_sessions, slast, is_running, loops, stopped>>

NextGraph ==
    \/ \E u \in Users, c \in Slots, mi \in 1..Len(GraphMessages) : begin_message(u, c, mi)
    \/ \E u \in Users, c \in Slots : run_graph(u, c)
    \/ \E u \in Users, c \in Slots : finish_message(u, c)

SpecGraph == InitGraph /\ [][NextGraph]_vars

(***************************************************************************)
(* GoogleCalendarManager (google_calendar.py) and FallbackBookingAgent     *)
(* (langgraph_agent_fallback.py).  The messages of this agent carry a      *)
(* clock time as one token, "10:00" or "3pm".                              *)
(***************************************************************************)
\* the slots returned when the calendar cannot be read
DefaultSlots == {<<9, 0>>, <<10, 0>>, <<11, 0>>, <<14, 0>>, <<15, 0>>, <<16, 0>>, <<17, 0>>}

\* FallbackBookingAgent._check_availability(date): the hourly slots from 9 to
\* 18 that no event covers; when the calendar call raises, the default slots
fb_check_availability(date_str, ev, bz, ok) ==
    IF ok THEN {slot \in {<<h, 0>> : h \in 9..17} : <<date_str, slot>> \notin (ev \cup bz)}
    ELSE DefaultSlots

\* has_time: one of the three time patterns is found
fb_has_time(text) == \E p \in 1..Len(text) : text[p].k \in {"hm", "hp"}

fb_understand_intent(text) ==
    IF fb_has_time(text) /\ Len(text) <= 2 THEN "time_selection"
    ELSE IF \/ AnyOf(text, {"yes", "confirm", "perfect", "ok", "okay", "sure"})
            \/ Contains2(text, "book", "it") \/ Contains2(text, "that", "works")
            \/ Contains2(text, "sounds", "good")
    THEN "confirmation"
    ELSE IF \/ AnyOf(text, {"book", "schedule", "appointment", "meeting", "call",
                            "tomorrow", "today", "afternoon", "morning", "evening"})
            \/ Contains2(text, "next", "week")
            \/ fb_has_time(text)
    THEN "booking_request"
    ELSE IF \/ AnyOf(text, {"availability", "available", "free", "check", "slots"})
            \/ Contains2(text, "free", "time")
    THEN "availability_check"
    ELSE "general_question"

\* _extract_time_from_message: "HH:MM" as it stands, "3pm" in 24 hours
fb_extract_time_from_message(text) ==
    LET hm == FirstPos(text, LAMBDA p : text[p].k = "hm")
        hp == FirstPos(text, LAMBDA p : text[p].k = "hp")
    IN  IF hm # 0 THEN <<text[hm].a, text[hm].b>>
        ELSE IF hp # 0
        THEN <<(IF text[hp].s = "pm" /\ text[hp].a # 12 THEN text[hp].a + 12
                ELSE IF text[hp].s = "am" /\ text[hp].a = 12 THEN 0
                ELSE text[hp].a), 0>>
        ELSE NoTime

\* _extract_booking_info; td is now_ist.date()
fb_extract_booking_info(text, td) ==
    [date |-> IF Contains(text, "today") THEN td
              ELSE IF Contains(text, "tomorrow") THEN NextDay(td)
              ELSE IF Contains2(text, "next", "week") THEN AddDays(td, 7)
              ELSE NoDate,
     time |-> IF Contains(text, "morning") THEN <<10, 0>>
              ELSE IF Contains(text, "afternoon") THEN <<15, 0>>
              ELSE IF Contains(text, "evening") THEN <<18, 0>>
              ELSE IF \E p \in 1..Len(text) :
                         text[p].k = "hp" /\ text[p].s = "pm" /\ text[p].a % 10 = 3
                   THEN <<15, 0>>
              ELSE IF \E p \in 1..Len(text) :
                         text[p].k = "hp" /\ text[p].s = "am" /\ text[p].a = 10
                   THEN <<10, 0>>
              ELSE NoTime,
     duration |-> 60,
     meeting_type |-> IF Contains(text, "call") THEN "Call"
                      ELSE IF Contains(text, "meeting") THEN "Meeting"
                      ELSE IF Contains(text, "consultation") THEN "Consultation"
                      ELSE "Meeting"]

\* pending_booking None
NoBooking == [date |-> NoDate, time |-> NoTime, duration |-> 0, meeting_type |-> None]

\* the state a user starts with
InitialUserState ==
    [init |-> TRUE, step |-> "initial", pending_booking |-> NoBooking,
     available_slots |-> {}, selected_date |-> NoDate]

NoUserState == [InitialUserState EXCEPT !.init = FALSE]

\* what a call leaves: the user's state, the events created, the date the
\* calendar was asked about (NoDate when it was not asked), and what it
\* returns: "text" for one of the non-empty replies, None where the branch
\* ends without a return statement
FbOutcome(user_state, created, queried) ==
    [user_state |-> user_state, created |-> created, queried |-> queried,
     response |-> "text"]

\* a booking_request branch that asks for confirmation of any requested
\* time, offered or not
fb_booking_request_any_time(text, user_state, td, ev, bz, ok) ==
    LET extracted_info == fb_extract_booking_info(text, td)
        date_to_check == IF extracted_info.date = NoDate THEN NextDay(td)
                         ELSE extracted_info.date
        available_slots == fb_check_availability(date_to_check, ev, bz, ok)
    IN  FbOutcome([user_state EXCEPT
                      !.available_slots = available_slots,
                      !.selected_date = date_to_check,
                      !.pending_booking =
                          IF extracted_info.time # NoTime
                          THEN [extracted_info EXCEPT !.date = date_to_check]
                          ELSE @,
                      !.step =
                          IF extracted_info.time # NoTime
                          THEN "confirming_booking" ELSE "awaiting_time"],
                  {}, date_to_check)

\* the booking_request branch taken only by a user at the initial step
fb_booking_request_at_start(text, user_state, td, ev, bz, ok) ==
    LET extracted_info == fb_extract_booking_info(text, td)
        date_to_check == IF extracted_info.date = NoDate THEN NextDay(td)
                         ELSE extracted_info.date
        available_slots == fb_check_availability(date_to_check, ev, bz, ok)
    IN  IF user_state.step # "initial" THEN FbOutcome(user_state, {}, NoDate)
        ELSE FbOutcome([user_state EXCEPT
                           !.available_slots = available_slots,
                           !.selected_date = date_to_check,
                           !.pending_booking =
                               IF extracted_info.time \in available_slots
                               THEN [extracted_info EXCEPT !.date = date_to_check]
                               ELSE @,
                           !.step =
                               IF extracted_info.time \in available_slots
                               THEN "confirming_booking" ELSE "awaiting_time"],
                       {}, date_to_check)

\* process_message, the booking_request branch: the date defaults to
\* tomorrow, the calendar is asked, and the step follows the requested time
fb_booking_request(text, user_state, td, ev, bz, ok) ==
    LET extracted_info == fb_extract_booking_info(text, td)
        date_to_check == IF extracted_info.date = NoDate THEN NextDay(td)
                         ELSE extracted_info.date
        available_slots == fb_check_availability(date_to_check, ev, bz, ok)
    IN  [FbOutcome([user_state EXCEPT
                      !.available_slots = available_slots,
                      !.selected_date = date_to_check,
                      !.pending_booking =
                          IF extracted_info.time \in available_slots
                          THEN [extracted_info EXCEPT !.date = date_to_check]
                          ELSE @,
                      !.step =
                          IF extracted_info.time \in available_slots
                          THEN "confirming_booking" ELSE "awaiting_time"],
                  {}, date_to_check)
         EXCEPT !.response =
                    IF extracted_info.time = NoTime /\ available_slots = {}
                    THEN None ELSE "text"]

\* the branches of process_message; ok: the calendar call succeeds
fb_dispatch(intent, text, user_state, td, ev, bz, ok) ==
    IF intent = "time_selection" /\ user_state.step = "awaiting_time"
    THEN LET selected_time == fb_extract_time_from_message(text)
         IN  IF selected_time # NoTime /\ selected_time \in user_state.available_slots
             THEN FbOutcome([user_state EXCEPT
                                !.pending_booking =
                                    [date |-> user_state.selected_date,
                                     time |-> selected_time, duration |-> 60,
                                     meeting_type |-> "Call"],
                                !.step = "confirming_booking"], {}, NoDate)
             ELSE FbOutcome(user_state, {}, NoDate)
    ELSE IF intent = "confirmation" /\ user_state.step = "confirming_booking"
    THEN IF ok
         THEN FbOutcome([user_state EXCEPT
                            !.step = "initial", !.pending_booking = NoBooking,
                            !.available_slots = {}, !.selected_date = NoDate],
                        {<<user_state.pending_booking.date,
                           user_state.pending_booking.time>>}, NoDate)
         ELSE FbOutcome(user_state, {}, NoDate)
    ELSE IF intent = "general_question"
    THEN IF AnyOf(text, {"hello", "hi", "hey"})
            \/ Contains2(text, "good", "morning")
            \/ Contains2(text, "good", "afternoon")
            \/ Contains2(text, "good", "evening")
         THEN FbOutcome([user_state EXCEPT !.step = "initial"], {}, NoDate)
         ELSE FbOutcome(user_state, {}, NoDate)
    ELSE IF intent = "availability_check"
    THEN LET extracted_info == fb_extract_booking_info(text, td)
             date_to_check == IF extracted_info.date = NoDate THEN td
                              ELSE extracted_info.date
         IN  FbOutcome([user_state EXCEPT
                           !.available_slots =
                               fb_check_availability(date_to_check, ev, bz, ok),
                           !.selected_date = date_to_check,
                           !.step = "showing_availability"], {}, date_to_check)
    ELSE IF intent = "booking_request"
    THEN fb_booking_request(text, user_state, td, ev, bz, ok)
    ELSE FbOutcome(user_state, {}, NoDate)

MaxFallbackCalls == 3     \* messages the users of the fallback agent send together

\* the messages users send to the fallback agent
FallbackMessages ==
    <<<<W("hello")>>,
      <<W("thanks")>>,
      <<W("schedule"), W("a"), W("call"), W("tomorrow"), W("at"), HP(3, "pm")>>,
      <<W("schedule"), W("a"), W("meeting")>>,
      <<W("yes")>>,
      <<HM(10, 0)>>,
      <<W("check"), W("slots")>>,
      <<W("what"), W("is"), W("free")>>>>

\* the calendars the fallback agent may face: free, 15:00 tomorrow taken, or
\* the whole of tomorrow taken
FallbackBusyChoices ==
    {{}, {<<NextDay(AgentNow), <<15, 0>>>>},
     {<<NextDay(AgentNow), <<h, 0>>>> : h \in 9..17}}

NoFallbackCall ==
    [n |-> 0, user |-> None, msg |-> 0, intent |-> None, prev |-> NoUserState,
     queried |-> NoDate, created |-> {}, ok |-> TRUE, before |-> {},
     response |-> None]

InitFallback ==
    /\ now = AgentNow
    /\ today = now
    /\ ptext = <<>> /\ pfuzzy = ValueError /\ pres = <<>>
    /\ sessions = <<>> /\ last = <<>>
    /\ events = {}
    /\ busy \in FallbackBusyChoices
    /\ gsessions = <<>> /\ calls = <<>> /\ glast = <<>> /\ shared = FALSE
    /\ user_states = [u \in Users |-> NoUserState]
    /\ flast = NoFallbackCall
    /\ conversation_history = <<>> /\ added = <<>>
    /\ InitManagers

\* await agent.process_message(message, user_id) of FallbackBookingAgent
fb_process_message(user_id, mi) ==
    /\ flast.n < MaxFallbackCalls
    /\ \E ok \in BOOLEAN, text \in {FallbackMessages[mi]} :
        LET user_state == IF user_states[user_id].init THEN user_states[user_id]
                          ELSE InitialUserState
        IN  \E intent \in {fb_understand_intent(text)} :
            \E out \in {fb_dispatch(intent, text, user_state, today, events, busy, ok)} :
                /\ user_states' = [user_states EXCEPT ![user_id] = out.user_state]
                /\ events' = events \cup out.created
                /\ flast' = [n |-> flast.n + 1, user |-> user_id, msg |-> mi,
                             intent |-> intent, prev |-> user_state,
                             queried |-> out.queried, created |-> out.created,
                             ok |-> ok, before |-> events,
                             response |-> out.response]
    /\ UNCHANGED <<now, today, ptext, pfuzzy, pres, sessions, busy, last,
                   gsessions, calls, glast, shared, conversation_history, added,
                   user_contexts, active_sessions, slast, is_running, loops, stopped>>

NextFallback == \E u \in Users, mi \in 1..Len(FallbackMessages) : fb_process_message(u, mi)

SpecFallback == InitFallback /\ [][NextFallback]_vars

(***************************************************************************)
(* The application (main_with_ai.py) serves its users with one agent:      *)
(* EnhancedBookingAgent when it loads, else FallbackBookingAgent.          *)
(***************************************************************************)
InitAssistants ==
    /\ now = AgentNow
    /\ today = now
    /\ ptext = <<>> /\ pfuzzy = ValueError /\ pres = <<>>
    /\ sessions = [u \in Users |-> NoSession]
    /\ events = {}
    /\ busy \in BusyChoices \cup FallbackBusyChoices
    /\ last = NoCall
    /\ gsessions = <<>> /\ calls = <<>> /\ glast = <<>> /\ shared = FALSE
    /\ user_states = [u \in Users |-> NoUserState]
    /\ flast = NoFallbackCall
    /\ conversation_history = <<>> /\ added = <<>>
    /\ InitManagers

\* every message goes to the agent that get_booking_agent chose
NextAssistants ==
    \/ flast.n = 0 /\ NextAgent
    \/ last.user = None /\ NextFallback

SpecAssistants == InitAssistants /\ [][NextAssistants]_vars

(***************************************************************************)
(* SecureUserBookingAgent (secure_user_agent.py): the conversation history *)
(***************************************************************************)
HistoryCap == 20
MaxAdded   == 23      \* entries added to the history of one user

\* history[-20:] where the list has more than 20 entries
Last20(history) ==
    IF Len(history) > HistoryCap
    THEN SubSeq(history, Len(history) - HistoryCap + 1, Len(history))
    ELSE history

\* a trim that keeps the first 20 entries, history[:20]
append_and_trim_front_kept(history, entry) ==
    IF Len(history) + 1 > HistoryCap
    THEN SubSeq(Append(history, entry), 1, HistoryCap)
    ELSE Append(history, entry)

\* _add_to_conversation: the entry is appended, then the list is cut to its
\* last 20 entries
append_and_trim(history, entry) == Last20(Append(history, entry))

InitSecure ==
    /\ now = AgentNow /\ today = now
    /\ ptext = <<>> /\ pfuzzy = ValueError /\ pres = <<>>
    /\ sessions = <<>> /\ events = {} /\ busy = {} /\ last = <<>>
    /\ gsessions = <<>> /\ calls = <<>> /\ glast = <<>> /\ shared = FALSE
    /\ user_states = <<>> /\ flast = <<>>
    /\ conversation_history = [u \in Users |-> <<>>]
    /\ added = [u \in Users |-> <<>>]
    /\ InitManagers

\* self._add_to_conversation(user_id, role, content): process_user_message
\* adds the user's message and then the reply; the content of an entry is
\* its number among the entries of that user
add_to_conversation(user_id, role) ==
    /\ Len(added[user_id]) < MaxAdded
    /\ role = (IF Len(added[user_id]) % 2 = 0 THEN "user" ELSE "assistant")
    /\ \E entry \in {[role |-> role, content |-> Len(added[user_id]) + 1]} :
        /\ conversation_history' =
               [conversation_history EXCEPT ![user_id] = append_and_trim(@, entry)]
        /\ added' = [added EXCEPT ![user_id] = Append(@, entry)]
    /\ UNCHANGED <<now, today, ptext, pfuzzy, pres, sessions, events, busy, last,
                   gsessions, calls, glast, shared, user_states, flast,
                   user_contexts, active_sessions, slast, is_running, loops, stopped>>

NextSecure == \E u \in Users, role \in {"user", "assistant"} : add_to_conversation(u, role)

SpecSecure == InitSecure /\ [][NextSecure]_vars

(***************************************************************************)
(* SecureUserBookingAgent.process_user_message and the auth manager        *)
(***************************************************************************)
MaxSecureTurns == 2      \* messages handled per user

SecureMessages ==
    <<<<W("hello")>>,
      <<W("help")>>,
      <<W("book"), W("tomorrow"), W("at"), HP(2, "pm")>>,
      <<W("availability"), W("tomorrow")>>,
      <<W("upcoming")>>,
      <<W("logout")>>,
      <<W("status")>>,
      <<W("when"), W("is"), W("my"), W("next"), W("call")>>,
      <<W("cancel"), W("it")>>,
      <<W("thanks")>>>>

\* message_lower in [...]: the whole message is one of the words
IsOneOf(text, words) == Len(text) = 1 /\ text[1].k = "w" /\ text[1].s \in words

\* message_lower.startswith(kw)
StartsWith(text, kw) == Len(text) > 0 /\ text[1].k = "w" /\ kw \in Starts(text[1].s)

\* what a handler did: the calendar operations it reached, whether it signed
\* the user out, and which reply it returned
Handled(ops, logout, reply) == [ops |-> ops, logout |-> logout, reply |-> reply]

\* _handle_booking_request: advanced_parser has no parse_datetime_from_text,
\* the AttributeError is caught before the calendar is reached
handle_booking_request == Handled({}, FALSE, "failed_to_book")

\* _handle_availability_request: the same call raises first
handle_availability_request == Handled({}, FALSE, "failed_to_check")

\* _handle_upcoming_events: multi_user_calendar_manager.get_user_upcoming_events
handle_upcoming_events == Handled({"get_user_upcoming_events"}, FALSE, "upcoming")

\* _get_user_status: multi_user_calendar_manager.get_user_calendar_info
get_user_status == Handled({"get_user_calendar_info"}, FALSE, "account")

\* _handle_logout: revoke_user_access(user_id) answers True, the context and
\* the history of the user are deleted
handle_logout == Handled({}, TRUE, "signed_out")

\* _handle_natural_language_request
handle_natural_language_request(text) ==
    IF AnyOf(text, {"when", "schedule"}) \/ Contains2(text, "what", "time")
    THEN handle_upcoming_events
    ELSE IF AnyOf(text, {"free", "available", "open"})
    THEN handle_availability_request
    ELSE IF AnyOf(text, {"cancel", "delete", "remove"})
    THEN Handled({}, FALSE, "cancel_help")
    ELSE Handled({}, FALSE, "not_sure")

\* _process_authenticated_message
process_authenticated_message(text) ==
    IF IsOneOf(text, {"help", "commands"}) THEN Handled({}, FALSE, "help")
    ELSE IF IsOneOf(text, {"hello", "hi", "hey", "start"}) THEN Handled({}, FALSE, "greeting")
    ELSE IF StartsWith(text, "book") \/ AnyOf(text, {"appointment", "schedule"})
    THEN handle_booking_request
    ELSE IF StartsWith(text, "availability") \/ AnyOf(text, {"available", "free"})
    THEN handle_availability_request
    ELSE IF IsOneOf(text, {"upcoming", "events", "calendar"}) THEN handle_upcoming_events
    ELSE IF IsOneOf(text, {"logout", "signout", "disconnect"}) THEN handle_logout
    ELSE IF IsOneOf(text, {"status", "info", "account"}) THEN get_user_status
    ELSE handle_natural_language_request(text)

\* _process_unauthenticated_message: every branch returns a fixed text
process_unauthenticated_message(text) ==
    IF IsOneOf(text, {"help", "commands"}) THEN Handled({}, FALSE, "help")
    ELSE IF IsOneOf(text, {"auth", "authenticate", "login", "signin"})
    THEN Handled({}, FALSE, "auth_instructions")
    ELSE IF IsOneOf(text, {"status", "health"}) THEN Handled({}, FALSE, "system_status")
    ELSE IF IsOneOf(text, {"hello", "hi", "hey", "start"}) THEN Handled({}, FALSE, "welcome")
    ELSE IF AnyOf(text, {"book", "schedule", "appointment", "meeting"})
    THEN Handled({}, FALSE, "auth_required_tip")
    ELSE Handled({}, FALSE, "auth_required")

\* a dispatch that takes every user for an authenticated one
respond_unchecked(is_authenticated, text) == process_authenticated_message(text)

\* process_user_message, lines 88-92: the branch on is_authenticated
respond(is_authenticated, text) ==
    IF is_authenticated THEN process_authenticated_message(text)
    ELSE process_unauthenticated_message(text)

\* google_auth_manager.is_user_authenticated: a session that is there and
\* has not expired
is_user_authenticated(session) == session = "valid"

NoContext == [present |-> FALSE, authenticated |-> FALSE]

InitSecureAgent ==
    /\ now = AgentNow /\ today = now
    /\ ptext = <<>> /\ pfuzzy = ValueError /\ pres = <<>>
    /\ sessions = <<>> /\ events = {} /\ busy = {} /\ last = <<>>
    /\ gsessions = <<>> /\ calls = <<>> /\ glast = <<>> /\ shared = FALSE
    /\ user_states = <<>> /\ flast = <<>>
    /\ conversation_history = [u \in Users |-> <<>>]
    /\ added = [u \in Users |-> <<>>]
    /\ user_contexts = [u \in Users |-> NoContext]
    /\ active_sessions = [u \in Users |-> None]
    /\ slast = [user |-> None, msg |-> 0, session |-> None, is_authenticated |-> FALSE,
                ops |-> {}, logout |-> FALSE]
    /\ is_running = FALSE /\ loops = <<>> /\ stopped = {}

\* handle_auth_callback: the OAuth flow ends and a session of 30 days is stored
handle_auth_callback(user_id) ==
    /\ active_sessions[user_id] # "valid"
    /\ active_sessions' = [active_sessions EXCEPT ![user_id] = "valid"]
    /\ UNCHANGED <<now, today, ptext, pfuzzy, pres, sessions, events, busy, last,
                   gsessions, calls, glast, shared, user_states, flast,
                   conversation_history, added, user_contexts, slast,
                   is_running, loops, stopped>>

\* the session's expires_at passes
session_expires(user_id) ==
    /\ active_sessions[user_id] = "valid"
    /\ active_sessions' = [active_sessions EXCEPT ![user_id] = "expired"]
    /\ UNCHANGED <<now, today, ptext, pfuzzy, pres, sessions, events, busy, last,
                   gsessions, calls, glast, shared, user_states, flast,
                   conversation_history, added, user_contexts, slast,
                   is_running, loops, stopped>>

\* await secure_agent.process_user_message(message, user_id)
process_user_message(user_id, mi) ==
    /\ Len(added[user_id]) < 2 * MaxSecureTurns
    /\ \E is_authenticated \in {is_user_authenticated(active_sessions[user_id])} :
       \E out \in {respond(is_authenticated, SecureMessages[mi])} :
       \E asked \in {[role |-> "user", content |-> Len(added[user_id]) + 1]},
          reply \in {[role |-> "assistant", content |-> Len(added[user_id]) + 2]} :
        \* is_user_authenticated revokes a session that has expired, logout
        \* revokes the session of the user
        /\ active_sessions' =
               [active_sessions EXCEPT ![user_id] =
                    IF is_authenticated /\ ~out.logout THEN @ ELSE None]
        \* the context is created, the flag is stored; logout deletes it
        /\ user_contexts' =
               [user_contexts EXCEPT ![user_id] =
                    IF out.logout THEN NoContext
                    ELSE [present |-> TRUE, authenticated |-> is_authenticated]]
        \* the message is added before the handler runs, the reply after it
        /\ conversation_history' =
               [conversation_history EXCEPT ![user_id] =
                    append_and_trim(IF out.logout THEN <<>>
                                    ELSE append_and_trim(@, asked), reply)]
        /\ added' = [added EXCEPT ![user_id] = Append(Append(@, asked), reply)]
        /\ slast' = [user |-> user_id, msg |-> mi,
                     session |-> active_sessions[user_id],
                     is_authenticated |-> is_authenticated,
                     ops |-> out.ops, logout |-> out.logout]
    /\ UNCHANGED <<now, today, ptext, pfuzzy, pres, sessions, events, busy, last,
                   gsessions, calls, glast, shared, user_states, flast,
                   is_running, loops, stopped>>

NextSecureAgent ==
    \/ \E u \in Users : handle_auth_callback(u)
    \/ \E u \in Users : session_expires(u)
    \/ \E u \in Users, mi \in 1..Len(SecureMessages) : process_user_message(u, mi)

SpecSecureAgent == InitSecureAgent /\ [][NextSecureAgent]_vars

(***************************************************************************)
(* RealTimeAvailabilityManager (realtime_availability.py): the monitoring  *)
(* loop.  Each start_monitoring call is a coroutine of the one event loop; *)
(* it runs without interruption from one await asyncio.sleep to the next.  *)
(***************************************************************************)
MaxTasks == 4            \* start_monitoring coroutines created
Tasks == 1..MaxTasks

\* the coroutines inside "while self.is_running", asleep between two checks
ActiveLoops(lp) == {t \in Tasks : lp[t] = "sleeping"}

InitMonitor ==
    /\ now = AgentNow /\ today = now
    /\ ptext = <<>> /\ pfuzzy = ValueError /\ pres = <<>>
    /\ sessions = <<>> /\ events = {} /\ busy = {} /\ last = <<>>
    /\ gsessions = <<>> /\ calls = <<>> /\ glast = <<>> /\ shared = FALSE
    /\ user_states = <<>> /\ flast = <<>>
    /\ conversation_history = <<>> /\ added = <<>>
    /\ user_contexts = <<>> /\ active_sessions = <<>> /\ slast = <<>>
    /\ is_running = FALSE
    /\ loops = [t \in Tasks |-> "created"]
    /\ stopped = {}

\* asyncio.create_task(manager.start_monitoring()): the coroutine runs to its
\* first sleep, or returns at once where is_running is already set
start_monitoring(t) ==
    /\ loops[t] = "created"
    /\ loops' = [loops EXCEPT ![t] = IF is_running THEN "returned" ELSE "sleeping"]
    /\ is_running' = TRUE
    /\ UNCHANGED <<now, today, ptext, pfuzzy, pres, sessions, events, busy, last,
                   gsessions, calls, glast, shared, user_states, flast,
                   conversation_history, added, user_contexts, active_sessions,
                   slast, stopped>>

\* await manager.stop_monitoring()
stop_monitoring ==
    /\ is_running' = FALSE
    /\ stopped' = stopped \cup ActiveLoops(loops)
    /\ UNCHANGED <<now, today, ptext, pfuzzy, pres, sessions, events, busy, last,
                   gsessions, calls, glast, shared, user_states, flast,
                   conversation_history, added, user_contexts, active_sessions,
                   slast, loops>>

\* asyncio.sleep returns in coroutine t: "while self.is_running" is tested,
\* the loop checks the calendar and sleeps again, or the coroutine ends
wake_up(t) ==
    /\ loops[t] = "sleeping"
    /\ loops' = [loops EXCEPT ![t] = IF is_running THEN "sleeping" ELSE "returned"]
    /\ stopped' = stopped \ {t}
    /\ UNCHANGED <<now, today, ptext, pfuzzy, pres, sessions, events, busy, last,
                   gsessions, calls, glast, shared, user_states, flast,
                   conversation_history, added, user_contexts, active_sessions,
                   slast, is_running>>

NextMonitor ==
    \/ \E t \in Tasks : start_monitoring(t)
    \/ stop_monitoring
    \/ \E t \in Tasks : wake_up(t)

SpecMonitor == InitMonitor /\ [][NextMonitor]_vars

(***************************************************************************)
(* Properties of the parser (SpecParser)                                   *)
(***************************************************************************)
\* the date rules whose pattern is found in the text
MatchingRules(text) == {i \in 1..NDateRules : DateSearch(i, text) # 0}

\* the date rules that are found in the text and whose resolver yields a date
YieldingRules(text, n) == {i \in MatchingRules(text) : IsDate(DateRuleResult(i, text, n))}

\* the earliest declared rule of a set of rules
Earliest(rules) == CHOOSE i \in rules : \A j \in rules : i <= j

\* C9 as stated: when date rules match the text, the date returned is the
\* result of the earliest declared matching rule; no later rule and no
\* fuzzy fallback supplies it.
C9_EarliestMatchingRuleSupplies ==
    (pres # <<>> /\ MatchingRules(ptext) # {}) =>
        /\ pres[1].date_rule = Earliest(MatchingRules(ptext))
        /\ pres[1].date = DateRuleResult(Earliest(MatchingRules(ptext)), ptext, now)

\* C9 amended: the date returned is the result of the earliest declared
\* rule that matches the text and whose resolver yields a date; a later
\* rule supplies it only when every earlier matching rule's resolver fails,
\* and the fuzzy fallback only when no matching rule yields a date.
C9_EarliestYieldingRuleSupplies ==
    pres # <<>> =>
        IF YieldingRules(ptext, now) # {}
        THEN /\ pres[1].date_rule = Earliest(YieldingRules(ptext, now))
             /\ pres[1].date = DateRuleResult(Earliest(YieldingRules(ptext, now)),
                                              ptext, now)
        ELSE /\ pres[1].date_rule \in {0, FuzzyRule}
             /\ pres[1].date_rule = FuzzyRule => pres[1].date = pfuzzy

\* "30th feb tomorrow": rule 1 matches and its resolver raises, rule 6
\* (tomorrow) matches too and supplies the date
C9_LaterRuleSuppliesAfterFailure ==
    /\ pres # <<>>
    /\ ptext = <<Ord(30), W("feb"), W("tomorrow")>>
    /\ MatchingRules(ptext) = {1, 6}
    /\ pres[1].date_rule = 6
    /\ pres[1].date = AddDays(now, 1)

\* C10: a text with the ISO date YYYY-MM-DD parses to that year, month and
\* day; the request "book appointment on <date> at <time>" rebuilt from a
\* stored date and time parses back to the same date and the same time.
C10_IsoDateRoundTrip ==
    pres # <<>> =>
        \A dt \in ValidIsoDates :
            /\ ptext = <<IsoTok(dt)>> => pres[1].date = dt
            /\ \A t \in ClockTimes :
                   ptext = full_request(dt, t) =>
                       pres[1].date = dt /\ pres[1].time = t

\* "book appointment on 2025-07-05 at 15:00": the numeric rule reads 07-05
\* as day 7 of month 5
C10_IsoDateReadAsDayMonth ==
    /\ pres # <<>>
    /\ ptext = full_request(<<2025, 7, 5>>, <<15, 0>>)
    /\ pres[1].date_rule = 3
    /\ pres[1].date[2] = 5 /\ pres[1].date[3] = 7
    /\ pres[1].time = <<15, 0>>

\* the text is "<day>th <month>", read by the day-month rule alone
IsDayMonthText ==
    /\ pres # <<>>
    /\ Len(ptext) = 2
    /\ ptext[1].k = "ord" /\ ptext[1].s = "th"
    /\ IsMonth(ptext[2])

\* C11: for a day and month without a year _parse_day_month returns the
\* earliest date with that day and month that is not before now's date
\* (this year's, else next year's), and it yields no date only when next
\* year's date is invalid and this year's is invalid or past.
C11_DayMonthEarliestNotBeforeNow ==
    IsDayMonthText =>
        \E r \in {parse_day_month(ptext[1].a, ptext[2].s, now)} :
        \E this \in {date(now[1], months(ptext[2].s), ptext[1].a)} :
        \E next \in {date(now[1] + 1, months(ptext[2].s), ptext[1].a)} :
            IF IsDate(r)
            THEN /\ r[2] = months(ptext[2].s) /\ r[3] = ptext[1].a
                 /\ ~DateLT(r, now)
                 /\ r \in {this, next}
                 /\ r = next => (~IsDate(this) \/ DateLT(this, now))
            ELSE /\ ~IsDate(next)
                 /\ ~IsDate(this) \/ DateLT(this, now)

\* C11: a day and month already past this year are resolved to next year
C11_PastDayMonthRollsForward ==
    /\ IsDayMonthText
    /\ IsDate(date(now[1], months(ptext[2].s), ptext[1].a))
    /\ DateLT(date(now[1], months(ptext[2].s), ptext[1].a), now)
    /\ parse_day_month(ptext[1].a, ptext[2].s, now)
         = date(now[1] + 1, months(ptext[2].s), ptext[1].a)
    /\ pres[1].date = parse_day_month(ptext[1].a, ptext[2].s, now)

\* day d of month m in now's year, or in the next year when that is past
Upcoming(m, d, n) ==
    IF IsDate(date(n[1], m, d)) /\ DateLT(date(n[1], m, d), n)
    THEN date(n[1] + 1, m, d) ELSE date(n[1], m, d)

\* the text is "A/B", a numeric date without a year
IsNumericText ==
    /\ pres # <<>>
    /\ Len(ptext) = 1
    /\ ptext[1].k = "num" /\ ptext[1].s # "y"

\* C12: for a numeric date A/B without a year _parse_numeric_date returns
\* day A of month B whenever that reading is a date, returns month A, day B
\* only when the day/month reading is impossible, and yields no date when
\* neither reading is a date.
C12_NumericDayMonthPreferred ==
    IsNumericText =>
        \E r \in {parse_numeric_date(ptext[1].a, ptext[1].b, 0, FALSE, now)} :
        \E dm \in {Upcoming(ptext[1].b, ptext[1].a, now)} :
        \E md \in {Upcoming(ptext[1].a, ptext[1].b, now)} :
            /\ IsDate(dm) => r = dm
            /\ (IsDate(r) /\ r # dm) => (~IsDate(dm) /\ r = md)
            /\ (~IsDate(dm) /\ ~IsDate(md)) => ~IsDate(r)
            /\ IsDate(r) => ~DateLT(r, now)

\* C12: "5/7", where both readings are dates, is read as 5 July
C12_AmbiguousReadAsDayMonth ==
    /\ IsNumericText
    /\ ptext[1].a # ptext[1].b
    /\ IsDate(Upcoming(ptext[1].b, ptext[1].a, now))
    /\ IsDate(Upcoming(ptext[1].a, ptext[1].b, now))
    /\ pres[1].date = Upcoming(ptext[1].b, ptext[1].a, now)
    /\ pres[1].date[3] = ptext[1].a

\* C13: parse_appointment_request returns a result for every text: the date
\* is a date or absent and the time a valid time or absent (no resolver's
\* exception gets out), and with neither date nor time the confidence is 0
\* and the suggestions are not empty.
C13_ParseAlwaysReturns ==
    pres # <<>> =>
        /\ IsDate(pres[1].date) \/ pres[1].date = NoDate
        /\ pres[1].time = NoTime \/ is_valid_time(pres[1].time)
        /\ (pres[1].date = NoDate /\ pres[1].time = NoTime) =>
               (pres[1].confidence = 0 /\ pres[1].suggestions # {})

\* C13: "30th feb", whose only matching rule has a resolver that raises,
\* is answered with no date, no time, confidence 0 and suggestions
C13_RaisingResolverYieldsSuggestions ==
    /\ pres # <<>>
    /\ ptext = <<Ord(30), W("feb")>>
    /\ DateRuleResult(1, ptext, now) = ValueError
    /\ pres[1].date = NoDate /\ pres[1].time = NoTime
    /\ pres[1].confidence = 0
    /\ pres[1].suggestions # {}

\* the confidence of the date of the last parse: 0.9 from a rule, 0.6 from
\* the fuzzy fallback; and of its time: 0.9
DateConfidence ==
    IF ~IsDate(pres[1].date) THEN 0
    ELSE IF pres[1].date_rule = FuzzyRule THEN 60 ELSE 90
TimeConfidence == IF pres[1].time = NoTime THEN 0 ELSE 90
ComponentsFound ==
    (IF IsDate(pres[1].date) THEN 1 ELSE 0) + (IF pres[1].time = NoTime THEN 0 ELSE 1)

\* C15: the confidence of a parse is the mean of the confidences of the
\* components present; it is 0 when neither date nor time is present and
\* lies between 0 and 1 (confidences are in hundredths).
C15_ConfidenceIsMean ==
    pres # <<>> =>
        /\ pres[1].confidence >= 0 /\ pres[1].confidence <= 100
        /\ ComponentsFound = 0 => pres[1].confidence = 0
        /\ ComponentsFound > 0 =>
               pres[1].confidence * ComponentsFound = DateConfidence + TimeConfidence

\* C15: a fuzzy date (0.6) with a rule-matched time (0.9) has confidence 0.75
C15_FuzzyDateAndTimeAveraged ==
    /\ pres # <<>>
    /\ pres[1].date_rule = FuzzyRule
    /\ pres[1].time # NoTime
    /\ pres[1].confidence = 75

\* the days from now's date to the date of the last parse
DaysAhead == toordinal(pres[1].date) - toordinal(now)

\* C16: the validation reports an error for a date exactly when the date is
\* before now's date or more than 365 days after it; today and the 365th
\* day are accepted.
C16_DateWindow ==
    (pres # <<>> /\ IsDate(pres[1].date)) =>
        /\ "past" \in pres[1].errors <=> DaysAhead < 0
        /\ "too_far" \in pres[1].errors <=> DaysAhead > 365
        /\ DaysAhead \in 0..365 <=> pres[1].errors = {}

\* C16: "27/6/2026" parsed on 2025-06-27 is 365 days ahead and accepted
C16_LastDayAccepted ==
    /\ pres # <<>>
    /\ IsDate(pres[1].date)
    /\ DaysAhead = 365
    /\ pres[1].errors = {}

(***************************************************************************)
(* Properties of the parser in a running process (SpecClock)               *)
(***************************************************************************)
\* C14: a parse resolves relative dates and validates against the date of
\* the call: "today" is the call's date, "tomorrow" the day after it, and
\* a date is reported as past exactly when it is before the call's date.
C14_RelativeToCallDate ==
    pres # <<>> =>
        /\ ptext = <<W("today")>> => pres[1].date = today
        /\ ptext = <<W("tomorrow")>> => pres[1].date = AddDays(today, 1)
        /\ IsDate(pres[1].date) =>
               ("past" \in pres[1].errors <=> DateLT(pres[1].date, today))

\* C14: two days after the parser was built "today" is still resolved to
\* the date of construction, and that date is not reported as past
C14_TodayIsConstructionDate ==
    /\ pres # <<>>
    /\ ptext = <<W("today")>>
    /\ today = AddDays(now, MaxDaysRunning)
    /\ pres[1].date = now
    /\ "past" \notin pres[1].errors

(***************************************************************************)
(* Properties of the EnhancedBookingAgent dialogue (SpecAgent)             *)
(***************************************************************************)
\* what the advanced parser makes of the message handled last
LastParse ==
    parse_appointment_request(Messages[last.msg].text, Messages[last.msg].fz, now)

\* the session, after the call, of the user whose message was handled last
LastSession == sessions[last.user]

\* C1: a calendar event is created only while a confirmation intent is
\* handled for a user whose dialogue is awaiting confirmation; no booking
\* request, date or time selection or availability check creates one.
C1_EventOnlyOnConfirmation ==
    last.created # {} =>
        /\ last.intent = "confirmation"
        /\ last.prev.last_action = "awaiting_confirmation"

\* the first message of a dialogue, a booking request, created the event
C1_EventOnBookingRequest ==
    /\ last.created # {}
    /\ ~last.prev.init
    /\ last.intent = "appointment_booking"
    /\ LastSession.last_action = "confirmed"

\* C4: once a date (or a time) is stored in a user's session context, a
\* later turn of the dialogue (one not yet booked) that supplies no new
\* value for it leaves it stored.
C4_StoredSlotsKept ==
    (last.user # None /\ ~last.direct /\ ~last.prev.current_context.event) =>
        /\ (IsDate(last.prev.current_context.date) /\ LastParse.date = NoDate)
              => LastSession.current_context.date = last.prev.current_context.date
        /\ (last.prev.current_context.time # NoTime /\ LastParse.time = NoTime)
              => LastSession.current_context.time = last.prev.current_context.time

\* a booking request without date or time emptied a context that held a date
C4_DateDropped ==
    /\ last.user # None /\ ~last.direct
    /\ IsDate(last.prev.current_context.date)
    /\ LastParse.date = NoDate /\ LastParse.time = NoTime
    /\ last.intent = "appointment_booking"
    /\ LastSession.current_context.date = NoDate

\* the message holds a time-like token: a colon, am/pm or a named period
TimeLike(message) ==
    AnyOf(message, {":", "am", "pm", "morning", "afternoon", "evening"})

\* the dialogue awaits a time: a date-only booking request listed the times
AwaitsTime(session) ==
    /\ session.init
    /\ session.last_action = "select_time"
    /\ IsDate(session.current_context.date)

\* C5: after a date-only booking request, the user's next message with a
\* time-like token is classified time_selection and the dialogue moves on
\* with the chosen time and the known date.
C5_TimeSelectionAfterDateOnly ==
    (last.user # None /\ ~last.direct /\ AwaitsTime(last.prev)
       /\ TimeLike(Messages[last.msg].text)) =>
        /\ last.intent = "time_selection"
        /\ (LastParse.time # NoTime =>
               \/ LastSession.current_context.date = last.prev.current_context.date
               \/ LastSession.current_context.requested_date
                      = last.prev.current_context.date)

\* "3pm", sent while a time is awaited, is taken for a general query and
\* the dialogue stays where it was
C5_TimeTakenForGeneralQuery ==
    /\ last.user # None /\ ~last.direct /\ AwaitsTime(last.prev)
    /\ Messages[last.msg].text = <<HP(3, "pm")>>
    /\ last.intent = "general_query"
    /\ LastSession.last_action = "select_time"
    /\ LastSession.current_context.time = NoTime

\* some weekday of the next TimeOnlyDays days has the slot free
TimeFreeSoon(time_str) ==
    \E i \in 1..TimeOnlyDays :
        /\ weekday(AddDays(today, i)) < 5
        /\ time_str \in get_availability(AddDays(today, i), events, busy)

\* C6: a booking request with a time and no date moves the dialogue to
\* awaiting a date (next_action select_date) and keeps the time; one with
\* only a date (on a day with free slots) moves it to awaiting a time.
C6_PartialRequestAwaitsRest ==
    (last.user # None /\ ~last.direct /\ last.intent = "appointment_booking") =>
        /\ (LastParse.date = NoDate /\ LastParse.time # NoTime
              /\ TimeFreeSoon(LastParse.time))
              => /\ LastSession.last_action = "select_date"
                 /\ LastSession.current_context.time = LastParse.time
        /\ (IsDate(LastParse.date) /\ LastParse.time = NoTime
              /\ LastParse.errors = {}
              /\ get_availability(LastParse.date, events, busy) # {})
              => /\ LastSession.last_action = "select_time"
                 /\ LastSession.current_context.date = LastParse.date

\* "book appointment at 3pm" ends in clarify with the time thrown away
C6_TimeOnlyEndsInClarify ==
    /\ last.user # None /\ ~last.direct /\ last.intent = "appointment_booking"
    /\ LastParse.date = NoDate /\ LastParse.time = <<15, 0>>
    /\ TimeFreeSoon(<<15, 0>>)
    /\ LastSession.last_action = "clarify"
    /\ LastSession.current_context.time = NoTime

\* the last message was a booking request with a date and a time inside the
\* date window, on a weekend or outside business hours
OffHoursRequest ==
    /\ last.msg # 0 /\ ~last.direct
    /\ last.intent = "appointment_booking"
    /\ \E p \in {LastParse} :
        /\ IsDate(p.date) /\ p.time # NoTime
        /\ ~DateLT(p.date, now) /\ toordinal(p.date) <= toordinal(now) + 365
        /\ \/ weekday(p.date) >= 5
           \/ p.time[1] < business_start \/ p.time[1] >= business_end

\* C17: a weekend date or a time outside business hours adds a suggestion
\* and no error, and schedule_appointment goes on to the exact date and
\* time branch as for any other request.
C17_SuggestionsDoNotBlock ==
    OffHoursRequest =>
        \E p \in {LastParse} :
            /\ p.errors = {}
            /\ weekday(p.date) >= 5 => "weekend" \in p.suggestions
            /\ (p.time[1] < business_start \/ p.time[1] >= business_end)
                   => "business_hours" \in p.suggestions
            /\ \E ok \in BOOLEAN :
                   LastSession.current_context =
                       handle_exact_datetime_request(
                           p.date, p.time, BaseResult, events \ last.created, busy, ok).result

\* C17: "book appointment tomorrow at 3pm", a Saturday, is booked
C17_WeekendRequestBooked ==
    /\ OffHoursRequest
    /\ weekday(LastParse.date) >= 5
    /\ last.created = {<<LastParse.date, LastParse.time>>}
    /\ LastSession.last_action = "confirmed"

(***************************************************************************)
(* Properties of the handlers (SpecHandlers)                               *)
(***************************************************************************)
\* C7: when event creation fails while a confirmation is handled, the
\* session ends in a step other than completed and the date and time it
\* held before the attempt are still stored.
C7_FailedConfirmationKeepsSlots ==
    (last.intent = "confirmation" /\ last.failed) =>
        /\ LastSession.last_action # "completed"
        /\ LastSession.current_context.date = last.prev.current_context.date
        /\ LastSession.current_context.time = last.prev.current_context.time

\* the calendar refused the event, yet the session is completed and holds
\* neither date nor time
C7_FailedConfirmationCompleted ==
    /\ last.intent = "confirmation" /\ last.failed
    /\ IsDate(last.prev.current_context.date)
    /\ last.prev.current_context.time # NoTime
    /\ LastSession.last_action = "completed"
    /\ LastSession.current_context.date = NoDate
    /\ LastSession.current_context.time = NoTime
(***************************************************************************)
(* Properties of the LangGraph agent (SpecGraph)                           *)
(***************************************************************************)
\* what parse_datetime made of the message of the call that finished last
GraphParse ==
    parse_datetime(GraphMessages[glast.msg].text, GraphMessages[glast.msg].fz, now)

\* the call that finished last overlapped no other call of its user
FinishedAlone == glast # <<>> /\ glast.alone

\* the call that finished last carried a booking request whose date and time
\* were both parsed, are valid and are free in the calendar
BookableRequest ==
    /\ FinishedAlone
    /\ understand_intent(glast.input, GraphMessages[glast.msg].text).user_intent
         = "booking_request"
    /\ \E p \in {GraphParse} :
        /\ IsDate(p.date) /\ p.time # NoTime
        /\ ~DateLT(p.date, today) /\ toordinal(p.date) <= toordinal(today) + 365
        /\ p.time[1] >= business_start /\ p.time[1] < business_end
        /\ p.time \in get_availability(p.date, events, busy)

\* C2: a booking request whose date and time are parsed, valid and available
\* ends the turn with the step awaiting_confirmation, the date and time
\* stored and booking_confirmed false.
C2_BookableRequestAwaitsConfirmation ==
    BookableRequest =>
        /\ gsessions[glast.user].current_step = "awaiting_confirmation"
        /\ gsessions[glast.user].extracted_info.date = GraphParse.date
        /\ gsessions[glast.user].extracted_info.time = GraphParse.time
        /\ ~gsessions[glast.user].booking_confirmed

\* C2: such a request makes the graph raise, and the session does not wait
\* for a confirmation
C2_BookableRequestRaises ==
    /\ BookableRequest
    /\ glast.raised
    /\ gsessions[glast.user].current_step # "awaiting_confirmation"

\* C3: at most one process_message call of a user is between reading the
\* session and writing it back.
C3_OneMutationInFlight ==
    \A u \in Users : Cardinality({c \in Slots : calls[u][c].pc # "idle"}) <= 1

\* C3: a call wrote its result back over a session that held a message the
\* result does not have
C3_MessageLost ==
    /\ glast # <<>>
    /\ ~glast.raised
    /\ \E i \in DOMAIN glast.prev.messages :
          \/ i > Len(gsessions[glast.user].messages)
          \/ gsessions[glast.user].messages[i] # glast.prev.messages[i]

\* the call that finished last found a date set by a rule (confidence 0.9)
\* and its own message had a date from the fuzzy fallback only
FuzzyAfterRule ==
    /\ FinishedAlone
    /\ IsDate(glast.input.extracted_info.date)
    /\ glast.input.extracted_info.date_confidence >= 90
    /\ IsDate(GraphParse.date)
    /\ GraphParse.date_confidence < 90

\* C8: a date set from a rule-based match is not overwritten by a later
\* message whose date comes from the fuzzy fallback.
C8_RuleDateKept ==
    FuzzyAfterRule =>
        gsessions[glast.user].extracted_info.date = glast.input.extracted_info.date

\* C8: the fuzzy date of the later message replaced the date set by a rule
C8_FuzzyDateOverwrites ==
    /\ FuzzyAfterRule
    /\ gsessions[glast.user].extracted_info.date = GraphParse.date
    /\ GraphParse.date # glast.input.extracted_info.date

\* the calls whose graph has run, and the message each of them read
Returned == {uc \in Users \X Slots : calls[uc[1]][uc[2]].pc = "returned"}
ReadText(uc) ==
    GraphMessages[calls[uc[1]][uc[2]].input.messages[
                      Len(calls[uc[1]][uc[2]].input.messages)]].text
NoShortcut(uc) ==
    ~(/\ calls[uc[1]][uc[2]].input.current_step = "awaiting_confirmation"
      /\ AnyOf(ReadText(uc), {"yes", "confirm", "ok", "sure"}))
TopIntents(text) ==
    {i \in 1..6 : IntentScore(i, text) > 0
        /\ \A j \in 1..6 : IntentScore(j, text) <= IntentScore(i, text)}

\* C18 as stated: without a shortcut the intent is the one with the most
\* keyword hits, ties broken in the order booking, confirmation,
\* availability check, modify, cancel, help; no hit at all gives general.
C18_TiesInEnumOrder ==
    \A uc \in Returned :
        NoShortcut(uc) =>
            \E top \in {TopIntents(ReadText(uc))} :
                calls[uc[1]][uc[2]].state.user_intent =
                    IF top = {} THEN "general_question"
                    ELSE IntentName(CHOOSE i \in top :
                                        \A j \in top : EnumRank(i) <= EnumRank(j))

\* what the code does instead: ties are broken in the order in which
\* _understand_intent declares its intents: booking, modify, cancel,
\* availability check, confirmation, help.
TiesInDeclarationOrder ==
    \A uc \in Returned :
        NoShortcut(uc) =>
            \E top \in {TopIntents(ReadText(uc))} :
                calls[uc[1]][uc[2]].state.user_intent =
                    IF top = {} THEN "general_question"
                    ELSE IntentName(CHOOSE i \in top : \A j \in top : i <= j)

\* C18: "sure cancel" has one hit for cancel and one for confirmation, and
\* is taken for a cancellation
C18_CancelBeatsConfirmation ==
    \E uc \in Returned :
        /\ NoShortcut(uc)
        /\ TopIntents(ReadText(uc)) = {3, 5}
        /\ calls[uc[1]][uc[2]].state.user_intent = "cancel_booking"

(***************************************************************************)
(* Properties of the messages that book nothing (SpecAgent, SpecFallback)  *)
(***************************************************************************)
\* the dialogue step and the gathered slots of a fallback user's state
FbSlots(user_state) ==
    <<user_state.step, user_state.pending_booking, user_state.available_slots,
      user_state.selected_date>>

\* EnhancedBookingAgent: a greeting, help or general message leaves the
\* step (last_action) and the gathered slots (current_context) as they were
EnhancedGeneralKeepsState ==
    last.intent \in {"greeting", "help", "general_query"} =>
        /\ sessions[last.user].last_action = last.prev.last_action
        /\ sessions[last.user].current_context = last.prev.current_context

\* C19: FallbackBookingAgent handling a greeting or general message leaves
\* the user's dialogue step and every gathered slot (date, pending booking,
\* offered slots) unchanged, in whatever step the message arrives.
C19_GeneralMessageKeepsState ==
    flast.intent = "general_question" =>
        FbSlots(user_states[flast.user]) = FbSlots(flast.prev)

\* C19: "hello" arrives while a booking awaits its confirmation; the step
\* is back at initial and the pending booking is still stored
C19_GreetingRestartsDialogue ==
    /\ flast.intent = "general_question"
    /\ flast.prev.step = "confirming_booking"
    /\ user_states[flast.user].step = "initial"
    /\ user_states[flast.user].pending_booking = flast.prev.pending_booking
    /\ user_states[flast.user].pending_booking # NoBooking

\* the message of the last fallback call names no date
FbNoDate == fb_extract_booking_info(FallbackMessages[flast.msg], today).date = NoDate

\* C20: for an availability-check message without a date the
\* FallbackBookingAgent asks the calendar about tomorrow, and handling an
\* availability check leaves the user's dialogue step unchanged.
C20_AvailabilityAsksTomorrow ==
    flast.intent = "availability_check" =>
        /\ FbNoDate => flast.queried = NextDay(today)
        /\ user_states[flast.user].step = flast.prev.step

\* C20: "check slots" arrives while the user is asked for a time; the
\* calendar is asked about today and the step becomes showing_availability
C20_AvailabilityAsksToday ==
    /\ flast.intent = "availability_check"
    /\ FbNoDate
    /\ flast.queried = today
    /\ flast.prev.step = "awaiting_time"
    /\ user_states[flast.user].step = "showing_availability"

(***************************************************************************)
(* Properties of the fallback dialogue (SpecFallback)                      *)
(***************************************************************************)
\* the state a booking request leaves when it is the first message of a user
FreshDialogue ==
    fb_booking_request(FallbackMessages[flast.msg], InitialUserState, today,
                       flast.before, busy, flast.ok).user_state

C22_OneAssistantMessagePerTurn ==
    FinishedAlone =>
        gsessions[glast.user].messages = Append(glast.input.messages, 0)

\* C22: the graph raised on a message, process_message answered from its
\* except clause, and the history ends with the user's message
C22_TurnWithoutReply ==
    /\ FinishedAlone
    /\ glast.raised
    /\ gsessions[glast.user].messages = glast.input.messages
    /\ glast.input.messages[Len(glast.input.messages)] > 0

(***************************************************************************)
(* Properties of the conversation histories (SpecHistory)                  *)
(***************************************************************************)
\* C23: after any sequence of process_message calls on EnhancedBookingAgent
\* each user's conversation_history holds at most 20 entries.
C23_HistoryCapped ==
    \A u \in Users : Len(sessions[u].conversation_history) <= HistoryCap

\* C23: the eleventh message of a user has been answered and all 22 entries
\* are in the history
C23_HistoryHoldsAllEntries ==
    \E u \in Users :
        /\ last.user = u
        /\ Turns(sessions[u]) = 11
        /\ Len(sessions[u].conversation_history) = 22

\* C24: _add_to_conversation keeps the history in arrival order and trims
\* only from the front: the stored history is the last min(n, 20) of the n
\* entries added, in the order they were added.
C24_HistoryIsLatestEntries ==
    \A u \in Users :
        \E n \in {Len(added[u])} :
            conversation_history[u] =
                SubSeq(added[u], n - (IF n < HistoryCap THEN n ELSE HistoryCap) + 1, n)

\* C24: 22 entries were added for a user and the history holds entries 3 to 22
C24_OldestTwoTrimmed ==
    \E u \in Users :
        /\ Len(added[u]) = 22
        /\ Len(conversation_history[u]) = 20
        /\ conversation_history[u][1].content = 3
        /\ conversation_history[u][20].content = 22

(***************************************************************************)
(* Properties of both dialogue agents (SpecAssistants)                     *)
(***************************************************************************)
\* C25: handling a message for one user leaves the session of every other
\* user as it was, in EnhancedBookingAgent and in FallbackBookingAgent, and
\* creates a session for the sender only.
C25_OtherUsersUntouched ==
    [][/\ \A u \in Users : u # last'.user => sessions'[u] = sessions[u]
       /\ \A u \in Users : u # flast'.user => user_states'[u] = user_states[u]
       /\ last' # last => sessions'[last'.user].init
       /\ flast' # flast => user_states'[flast'.user].init]_vars

\* C25: the second user has been served while the first user's session was
\* at the step select_time; that session is still there and holds its date
C25_SecondUserServed ==
    /\ last.user = "u2"
    /\ sessions["u2"].init
    /\ sessions["u1"].init
    /\ sessions["u1"].last_action = "select_time"
    /\ IsDate(sessions["u1"].current_context.date)
    /\ Len(sessions["u1"].conversation_history) = 2

(***************************************************************************)
(* Written clock times: a 12-hour time is parsed, shown to the user in     *)
(* 12-hour form (strptime('%H:%M') then strftime('%I:%M %p')) and the      *)
(* shown text is parsed again.                                             *)
(***************************************************************************)
WrittenHours   == 0 .. 13
WrittenMinutes == {0, 5, 30, 59}
Periods        == {"am", "pm"}

\* "3:30pm", "3:30 pm", "3pm", "3 pm"
WrittenWithMinutes(h, m, p) == {<<HMP(h, m, p)>>, <<HM(h, m), W(p)>>}
WrittenSimple(h, p)         == {<<HP(h, p)>>, <<Nb(h), W(p)>>}

TwelveHourTexts ==
    UNION {WrittenWithMinutes(h, m, p) :
               <<h, m, p>> \in WrittenHours \X WrittenMinutes \X Periods}
    \cup UNION {WrittenSimple(h, p) : <<h, p>> \in WrittenHours \X Periods}

\* a display that writes every hour as a morning hour
format_12_hour_morning(t) ==
    <<HM(IF t[1] % 12 = 0 THEN 12 ELSE t[1] % 12, t[2]), W("am")>>

\* time_obj.strftime('%I:%M %p') of the time "HH:MM", lower-cased by the parser
format_12_hour(t) ==
    <<HM(IF t[1] % 12 = 0 THEN 12 ELSE t[1] % 12, t[2]),
      W(IF t[1] < 12 THEN "am" ELSE "pm")>>

InitTimes ==
    /\ now = <<2025, 6, 27>>
    /\ today = now
    /\ ptext \in TwelveHourTexts
    /\ pfuzzy \in FuzzyOutcomes(now)
    /\ pres = <<>>
    /\ InitRest

\* the parsed time is formatted for display and the display is the next text
FormatBack ==
    /\ pres # <<>>
    /\ last = <<>>
    /\ pres[1].time # NoTime
    /\ last' = pres
    /\ ptext' = format_12_hour(pres[1].time)
    /\ pres' = <<>>
    /\ UNCHANGED <<now, today, pfuzzy, sessions, events, busy,
                   gsessions, calls, glast, shared, user_states, flast,
                   conversation_history, added,
                   user_contexts, active_sessions, slast, is_running, loops, stopped>>

NextTimes == ParseCall \/ FormatBack

SpecTimes == InitTimes /\ [][NextTimes]_vars

(***************************************************************************)
(* Properties of the 12-hour rules (SpecTimes)                             *)
(***************************************************************************)
\* the hour of the 24-hour clock that "h am" / "h pm" names
StandardHour(h, p) == (h % 12) + (IF p = "pm" THEN 12 ELSE 0)

\* C26: for an hour 1..12, a minute 0..59 and am/pm, the 12-hour rules return
\* the standard 24-hour time: 12 am is hour 0, 12 pm is hour 12, another pm
\* hour is h+12, another am hour is h; the minutes are unchanged, and are 00
\* when none are written.
C26_StandardTwelveHourTimes ==
    pres # <<>> =>
        /\ \A h \in 1 .. 12, m \in WrittenMinutes, p \in Periods :
               ptext \in WrittenWithMinutes(h, m, p) =>
                   /\ pres[1].time = <<StandardHour(h, p), m>>
                   /\ pres[1].time_rule = 1
        /\ \A h \in 1 .. 12, p \in Periods :
               ptext \in WrittenSimple(h, p) =>
                   /\ pres[1].time = <<StandardHour(h, p), 0>>
                   /\ pres[1].time_rule = 2

\* C26: "12:30am" has been parsed as 00:30 and "12pm" as 12:00
C26_MidnightAndNoonParsed ==
    /\ pres # <<>>
    /\ \/ ptext = <<HMP(12, 30, "am")>> /\ pres[1].time = <<0, 30>>
       \/ ptext = <<HP(12, "pm")>> /\ pres[1].time = <<12, 0>>

\* C27: a time that a 12-hour rule produced and the extractor accepted, shown
\* in 12-hour form and parsed again, is the same time.
C27_TwelveHourRoundTrip ==
    (last # <<>> /\ pres # <<>> /\ last[1].time_rule \in {1, 2}) =>
        pres[1].time = last[1].time

\* C27: an afternoon time and the time 00:30 have made the round trip
C27_RoundTripMade ==
    /\ last # <<>> /\ pres # <<>>
    /\ last[1].time_rule = 1
    /\ last[1].time \in {<<15, 30>>, <<0, 30>>}
    /\ ptext = format_12_hour(last[1].time)
    /\ pres[1].time = last[1].time

(***************************************************************************)
(* Weekday requests: every weekday name, asked on each day of one week.    *)
(***************************************************************************)
\* the seven days from Friday 26 December 2025 to Thursday 1 January 2026
WeekDates == {AddDays(<<2025, 12, 26>>, k) : k \in 0 .. 6}

\* "friday", "next friday", "this friday", "on friday"
WeekdayTexts ==
    {<<W(w)>> : w \in WeekdayNames}
    \cup {<<W(q), W(w)>> : <<q, w>> \in {"next", "this", "on"} \X WeekdayNames}

InitWeekdays ==
    /\ now \in WeekDates
    /\ today = now
    /\ ptext \in WeekdayTexts
    /\ pfuzzy \in FuzzyOutcomes(now)
    /\ pres = <<>>
    /\ InitRest

SpecWeekdays == InitWeekdays /\ [][ParseCall]_vars

(***************************************************************************)
(* Properties of the weekday rules (SpecWeekdays)                          *)
(***************************************************************************)
\* the first date on or after dt that falls on weekday number wn
FirstOnOrAfter(dt, wn) ==
    AddDays(dt, CHOOSE k \in 0 .. 6 :
                    /\ weekday(AddDays(dt, k)) = wn
                    /\ \A j \in 0 .. (k - 1) : weekday(AddDays(dt, j)) # wn)

\* the weekday name of a weekday text
NamedDay(text) == text[Len(text)].s

\* C28: "next <weekday>" and a bare "<weekday>" resolve to the first date
\* strictly after now's date that falls on that weekday (1 to 7 days ahead,
\* never today); "this <weekday>" resolves to the first such date on or after
\* now's date (0 to 6 days ahead, today when today is that weekday).
C28_WeekdayResolution ==
    pres # <<>> =>
        IF ptext[1] = W("this")
        THEN /\ pres[1].date = FirstOnOrAfter(now, weekdays(NamedDay(ptext)))
             /\ pres[1].date \in {AddDays(now, k) : k \in 0 .. 6}
             /\ weekdays(NamedDay(ptext)) = weekday(now) => pres[1].date = now
        ELSE /\ pres[1].date = FirstOnOrAfter(NextDay(now), weekdays(NamedDay(ptext)))
             /\ pres[1].date \in {AddDays(now, k) : k \in 1 .. 7}

\* C28: asked on a Friday, "this friday" is today and "next friday" and
\* "friday" are seven days ahead
C28_AskedOnThatWeekday ==
    /\ pres # <<>>
    /\ weekday(now) = 4
    /\ \/ ptext = <<W("this"), W("friday")>> /\ pres[1].date = now
       \/ ptext = <<W("next"), W("fri")>> /\ pres[1].date = AddDays(now, 7)
       \/ ptext = <<W("friday")>> /\ pres[1].date = AddDays(now, 7)

(***************************************************************************)
(* Properties of the replies of both dialogue agents (SpecAssistants)      *)
(***************************************************************************)
\* process_message of EnhancedBookingAgent appends its response to the
\* history just before it returns it
Replied(session) ==
    /\ session.conversation_history # <<>>
    /\ session.conversation_history[Len(session.conversation_history)] = "assistant"

\* C29: process_message of EnhancedBookingAgent and of FallbackBookingAgent
\* returns a non-empty text for every message in every reachable session
\* state; it never returns nothing.
C29_AlwaysAResponse ==
    /\ last.user # None => Replied(sessions[last.user])
    /\ flast.n > 0 => flast.response = "text"

\* C29: the fallback agent was asked for a meeting without a time while the
\* whole of the day was taken, and returned nothing
C29_BookingRequestUnanswered ==
    /\ flast.n > 0
    /\ flast.intent = "booking_request"
    /\ flast.ok
    /\ user_states[flast.user].available_slots = {}
    /\ user_states[flast.user].step = "awaiting_time"
    /\ flast.response = None

(***************************************************************************)
(* DateTimeParser alone: parse_datetime applied to one text that names a   *)
(* day of a month, a numeric date or a clock time, valid or not.           *)
(***************************************************************************)
\* "february 30th", "31st june", "31/31/2025": no calendar has these days
InvalidDateTexts ==
    {<<W("february"), Ord(30)>>, <<Ord(31), W("june")>>, <<NumY(31, 31, 2025)>>}

\* "25:00", "9:60", "2500 hours": no clock shows these times
InvalidTimeTexts ==
    {<<HM(25, 0)>>, <<HM(9, 60)>>, <<Mil(25, 0), W("hours")>>}

ValidDateTexts ==
    {<<W("february"), Ord(28)>>, <<Ord(30), W("june")>>, <<W("july"), Ord(5)>>,
     <<NumY(7, 5, 2025)>>}

ValidTimeTexts == {<<HM(15, 30)>>, <<Mil(15, 30), W("hours")>>, <<HP(3, "pm")>>}

\* a date text, a time text, or "<date> at <time>"
DateTimeTexts ==
    LET dates == InvalidDateTexts \cup ValidDateTexts
        times == InvalidTimeTexts \cup ValidTimeTexts
    IN  dates \cup times
        \cup {d \o <<W("at")>> \o t : <<d, t>> \in dates \X times}

InitDateTime ==
    /\ now \in NowDates
    /\ today = now
    /\ ptext \in DateTimeTexts
    /\ pfuzzy \in FuzzyOutcomes(now)
    /\ pres = <<>>
    /\ InitRest

\* result = DateTimeParser.parse_datetime(text)
ParseDatetimeCall ==
    /\ pres = <<>>
    /\ pres' = <<parse_datetime(ptext, pfuzzy, now)>>
    /\ UNCHANGED <<now, today, ptext, pfuzzy, sessions, events, busy, last,
                   gsessions, calls, glast, shared, user_states, flast,
                   conversation_history, added,
                   user_contexts, active_sessions, slast, is_running, loops, stopped>>

SpecDateTime == InitDateTime /\ [][ParseDatetimeCall]_vars

(***************************************************************************)
(* Properties of DateTimeParser (SpecDateTime)                             *)
(***************************************************************************)
\* the text holds one of the given texts
Holds(text, parts) ==
    \E part \in parts : \E i \in 1 .. Len(text) :
        /\ i + Len(part) - 1 <= Len(text)
        /\ SubSeq(text, i, i + Len(part) - 1) = part

\* C30: parse_datetime returns a date or a time only when the matched text
\* denotes a valid calendar date or clock time; for an invalid match (30
\* February, 25:00) the field is absent: no default (today's date, 09:00) is
\* put in its place and reported as a rule match.
C30_InvalidMatchLeavesFieldAbsent ==
    pres # <<>> =>
        /\ Holds(ptext, InvalidDateTexts) =>
               ~(IsDate(pres[1].date) /\ pres[1].date_confidence = 90)
        /\ Holds(ptext, InvalidTimeTexts) => pres[1].time = NoTime

\* C30: "february 30th at 25:00" has been parsed as today at 09:00, the
\* date reported as the match of a rule
C30_DefaultsReported ==
    /\ pres # <<>>
    /\ ptext = <<W("february"), Ord(30), W("at"), HM(25, 0)>>
    /\ pres[1].date = now
    /\ pres[1].date_confidence = 90
    /\ pres[1].time = <<9, 0>>

(***************************************************************************)
(* Properties of the selection handlers (SpecSelections)                   *)
(***************************************************************************)
\* what the parser makes of the text of the last call
LastSelectionParse ==
    parse_appointment_request(Messages[last.msg].text, Messages[last.msg].fz, now)

\* the last call left the step and the context of its user as they were
StepKept ==
    /\ sessions[last.user].last_action = last.prev.last_action
    /\ sessions[last.user].current_context = last.prev.current_context
    /\ last.created = {}

\* C31: a time selection whose text yields no time, and a date selection
\* whose text yields no date, leave the session's last_action and
\* current_context exactly as they were: nothing advances.
C31_FailedSelectionKeepsStep ==
    (last.user # None /\ last.direct) =>
        /\ (last.intent = "time_selection" /\ LastSelectionParse.time = NoTime)
               => StepKept
        /\ (last.intent = "date_selection" /\ ~IsDate(LastSelectionParse.date))
               => StepKept

\* C31: "hello" was given as the time of a dialogue that had shown the free
\* times of a date, and the dialogue still waits at that step
C31_TimeAskedAgain ==
    /\ last.user # None /\ last.direct
    /\ last.intent = "time_selection"
    /\ last.msg = 1
    /\ last.prev.last_action = "select_time"
    /\ IsDate(last.prev.current_context.date)
    /\ sessions[last.user].last_action = "select_time"
    /\ sessions[last.user].current_context = last.prev.current_context

(***************************************************************************)
(* Properties of event creation (SpecAssistants, SpecGraph)                *)
(***************************************************************************)
\* the graph of the LangGraph agent never arrives at create_booking: the
\* router after check_availability answers confirm_booking, which is no key
\* of its path map
GraphCreatesNoEvent == events = {}

\* C32: an event is created only for a date and a time such that the time
\* was in the list that the availability collaborator returned for that date
\* in the same dialogue: the scheduler books a slot that get_availability has
\* just returned, the fallback agent one of the available_slots it stored
\* for the selected date.
C32_OnlyOfferedSlotsBooked ==
    [][\A e \in events' \ events :
          \/ /\ last' # last
             /\ e[2] \in get_availability(e[1], events, busy)
          \/ /\ flast' # flast
             /\ user_states[flast'.user].init
             /\ e[1] = user_states[flast'.user].selected_date
             /\ e[2] \in user_states[flast'.user].available_slots]_vars

\* C32: both agents have created an event: the scheduler for a slot that was
\* free, the fallback agent for a slot it had offered
C32_OfferedSlotBooked ==
    \/ /\ last.user # None /\ last.created # {}
       /\ \A e \in last.created : <<e[1], e[2]>> \notin busy
    \/ /\ flast.n > 0 /\ flast.created # {}
       /\ \A e \in flast.created :
              /\ e[1] = flast.prev.selected_date
              /\ e[2] \in flast.prev.available_slots

(***************************************************************************)
(* Properties of slot selection in the fallback agent (SpecFallback)       *)
(***************************************************************************)
\* the time that the text of the last call names
NamedTime == fb_extract_time_from_message(FallbackMessages[flast.msg])

\* the last message follows an availability check of its user, which listed
\* free slots, and names one of the listed times
NamesListedTime ==
    /\ flast.n > 0
    /\ flast.prev.step = "showing_availability"
    /\ flast.intent = "time_selection"
    /\ NamedTime \in flast.prev.available_slots

\* C33: after an availability check has listed the free slots of a date and
\* invited the user to name one, a following message that names one of the
\* listed times selects that slot: the state moves to confirming the booking
\* for that date and time.
C33_ListedTimeSelectsSlot ==
    NamesListedTime =>
        /\ user_states[flast.user].step = "confirming_booking"
        /\ user_states[flast.user].pending_booking.date = flast.prev.selected_date
        /\ user_states[flast.user].pending_booking.time = NamedTime

\* C33: "10:00" was among the slots listed, the user answered "10:00", and
\* the dialogue stayed where it was with nothing pending
C33_ListedTimeIgnored ==
    /\ NamesListedTime
    /\ NamedTime = <<10, 0>>
    /\ user_states[flast.user] = flast.prev
    /\ user_states[flast.user].step = "showing_availability"
    /\ user_states[flast.user].pending_booking = NoBooking

(***************************************************************************)
(* Properties of the pending booking of the fallback agent (SpecFallback)  *)
(***************************************************************************)
\* the pending booking of a user who is asked to confirm is set, is for the
\* selected date and is for one of the slots offered
PendingIsOffered(user_state) ==
    user_state.step = "confirming_booking" =>
        /\ user_state.pending_booking # NoBooking
        /\ IsDate(user_state.pending_booking.date)
        /\ user_state.pending_booking.date = user_state.selected_date
        /\ user_state.pending_booking.time \in user_state.available_slots

\* C34: an event is created only when the user's step is confirming_booking
\* and the message is a confirmation; in every reachable state step =
\* confirming_booking implies that pending_booking is set, its date equals
\* selected_date and its time is in available_slots; the event created is
\* exactly the pending booking.
C34_PendingBookingIsWhatIsBooked ==
    /\ \A u \in Users : user_states[u].init => PendingIsOffered(user_states[u])
    /\ (flast.n > 0 /\ flast.created # {}) =>
           /\ flast.prev.step = "confirming_booking"
           /\ flast.intent = "confirmation"
           /\ flast.created = {<<flast.prev.pending_booking.date,
                                 flast.prev.pending_booking.time>>}

\* C34: a slot chosen from the offered list has been confirmed and booked
C34_ChosenSlotBooked ==
    /\ flast.n > 0
    /\ flast.intent = "confirmation"
    /\ flast.prev.step = "confirming_booking"
    /\ flast.prev.pending_booking.meeting_type = "Call"
    /\ flast.created = {<<flast.prev.selected_date, flast.prev.pending_booking.time>>}
    /\ user_states[flast.user].step = "initial"

(***************************************************************************)
(* The date and time kept by the LangGraph agent (SpecGraph).  No run of   *)
(* the graph arrives at create_booking (GraphCreatesNoEvent), so what is   *)
(* kept in extracted_info never gets into an event.                        *)
(***************************************************************************)
\* "book a meeting at 7 am" names no date; it was handled after a request
\* for 8 July, and the session holds 8 July with 07:00
StaleDateKept ==
    /\ glast # <<>> /\ glast.user # None
    /\ glast.msg = 4
    /\ ~glast.raised
    /\ gsessions[glast.user].extracted_info.date = <<2025, 7, 8>>
    /\ gsessions[glast.user].extracted_info.time = <<7, 0>>

(***************************************************************************)
(* Properties of the times the parser returns (SpecParser)                 *)
(***************************************************************************)
\* the time rules whose pattern is found in the text and whose resolver
\* yields a value outside the clock
OutOfRangeRules(text) ==
    {i \in 1..NTimeRules :
        /\ TimeSearch(i, text) # 0
        /\ TimeRuleResult(i, text) # TimeError
        /\ ~is_valid_time(TimeRuleResult(i, text))}

\* C36: every time the parser returns, from any time rule and for any
\* input, has its hour in 0..23 and its minute in 0..59; a rule whose
\* resolver yields a value out of range (13 pm + 12, half past 24, quarter to
\* 25) never supplies the time.
C36_ReturnedTimesAreClockTimes ==
    (pres # <<>> /\ pres[1].time # NoTime) =>
        /\ pres[1].time[1] \in 0..23
        /\ pres[1].time[2] \in 0..59
        /\ pres[1].time_rule \in 1..NTimeRules
        /\ pres[1].time_rule \notin OutOfRangeRules(ptext)
        /\ pres[1].time = TimeRuleResult(pres[1].time_rule, ptext)

\* C36: "13:30pm", "half past 24" and "quarter to 25" have been parsed: the
\* rule that matched gave 25:30, 24:30, 24:45, and no time was returned
C36_OutOfRangeDropped ==
    /\ pres # <<>>
    /\ ptext \in {<<HMP(13, 30, "pm")>>, <<W("half"), W("past"), Nb(24)>>,
                  <<W("quarter"), W("to"), Nb(25)>>}
    /\ OutOfRangeRules(ptext) # {}
    /\ pres[1].time = NoTime

(***************************************************************************)
(* Properties of the secure agent (SpecSecureAgent)                        *)
(***************************************************************************)
\* C37: process_user_message reaches a calendar operation for a user only
\* where the auth manager, asked while that message was handled, reported
\* the user as authenticated, which it does only for a session that is there
\* and has not expired; a user without one reaches no calendar operation.
C37_CalendarOnlyWhenAuthenticated ==
    slast.ops # {} => slast.is_authenticated /\ slast.session = "valid"

\* an authenticated user's message has reached a calendar operation
C37_CalendarReachedByAuthenticated ==
    /\ slast.ops # {}
    /\ slast.is_authenticated
    /\ \E u \in Users : u # slast.user /\ active_sessions[u] # "valid" /\ added[u] # <<>>

\* C38: after process_user_message has handled a successful logout for a
\* user, user_contexts and conversation_history hold no entry for that user.
C38_LogoutClearsUser ==
    slast.logout =>
        /\ ~user_contexts[slast.user].present
        /\ conversation_history[slast.user] = <<>>

\* the call that signed the user out has left its reply in the history
C38_ReplyKeptAfterLogout ==
    /\ slast.logout
    /\ ~user_contexts[slast.user].present
    /\ Len(conversation_history[slast.user]) = 1
    /\ conversation_history[slast.user][1].role = "assistant"

(***************************************************************************)
(* Properties of the availability monitor (SpecMonitor)                    *)
(***************************************************************************)
\* C39: whatever the order of the start_monitoring and stop_monitoring
\* calls, at most one monitoring loop is active at any time, and a loop that
\* was running when stop_monitoring was called ends at its next wake-up.
C39_OneLoopAndStopEndsIt ==
    [][/\ Cardinality(ActiveLoops(loops')) <= 1
       /\ \A t \in stopped \ stopped' : loops'[t] = "returned"]_vars

\* a loop that was stopped has woken and runs on beside the loop started
\* after the stop
C39_StoppedLoopRunsOn ==
    /\ Cardinality(ActiveLoops(loops)) >= 2
    /\ is_running
    /\ stopped = {}

====
